---- MODULE Spec2Model ----
(***************************************************************************)
(* A model of seance, the driver that turns an SVG drawing and a tool      *)
(* program into the PCL/HPGL job of a GCC Spirit laser cutter, and of the  *)
(* background worker that renders the on-screen preview.                   *)
(*                                                                         *)
(* Strings of the program are TLA+ strings.  The three non-printable bytes *)
(* of the output are written as reserved printable characters that occur   *)
(* nowhere else in the output: ESC (0x1B) as "@", SOX (0x02) as "#" and    *)
(* NUL (0x00) as "_".  Lengths in mm are exact integers in micrometres     *)
(* (1 mm = 1000); a plotter unit is 0.025 mm = 25 micrometres.             *)
(***************************************************************************)
EXTENDS Integers, Sequences, FiniteSets, TLC

(***************************************************************************)
(* Bounds of the model.                                                    *)
(***************************************************************************)
\* The largest number of stroked paths in a design.
MaxPaths == 2
\* The largest number of render requests the producers submit.
MaxRequests == 4

(***************************************************************************)
(* Constants of the program.                                               *)
(***************************************************************************)
\* hpgl.rs: `if tool_passes.len() != 16`.
RequiredToolPasses == 16
\* laser_passes.rs: power and speed are clamped with `.min(1000)`.
MaxPowerSpeed == 1000
\* paths.rs: MM_PER_PLOTTER_UNIT = 0.025 mm, in micrometres.
MM_PER_PLOTTER_UNIT == 25
\* Range of an i16.
I16Min == -32768
I16Max == 32767
\* lib.rs: BED_HEIGHT_MM = BED_Y_AXIS_MAXIMUM_MM = 463.20 mm, in micrometres.
BED_HEIGHT_MM == 463200
\* lib.rs: BED_WIDTH_MM = BED_X_AXIS_MAXIMUM_MM = 901.52 mm, in micrometres.
BED_WIDTH_MM == 901520

ESC == "@"
SOX == "#"
NUL == "_"

Black == <<0, 0, 0>>
Red == <<255, 0, 0>>
Green == <<0, 255, 0>>
Blue == <<0, 0, 255>>

Min(a, b) == IF a <= b THEN a ELSE b
Max(a, b) == IF a >= b THEN a ELSE b

(***************************************************************************)
(* Tool passes (laser_passes.rs, default_passes.rs).                       *)
(***************************************************************************)
ToolPassNew(name, r, g, b, power, speed, enabled) ==
    [name |-> name, colour |-> <<r, g, b>>,
     power |-> Min(power, MaxPowerSpeed), speed |-> Min(speed, MaxPowerSpeed),
     enabled |-> enabled]

default_passes ==
    << ToolPassNew("Pass 1", 0, 0, 0, 100, 20, FALSE),
       ToolPassNew("Pass 2", 255, 0, 0, 100, 20, FALSE),
       ToolPassNew("Pass 3", 0, 255, 0, 100, 20, FALSE),
       ToolPassNew("Pass 4", 0, 0, 255, 100, 20, FALSE) >>

\* The placeholder pass planchette pads a short tool program with.
SkippedPass == ToolPassNew("skipped", 0, 0, 0, 0, 1000, FALSE)

RECURSIVE Repeat(_, _)
Repeat(x, n) == IF n <= 0 THEN <<>> ELSE <<x>> \o Repeat(x, n - 1)

\* A normalisation that keeps the last 16 passes of a longer program and
\* puts the placeholders in front of a shorter one.
NormaliseFromTheBack(passes) ==
    IF Len(passes) > RequiredToolPasses
    THEN SubSeq(passes, Len(passes) - RequiredToolPasses + 1, Len(passes))
    ELSE Repeat(SkippedPass, RequiredToolPasses - Len(passes)) \o passes

\* send_file_to_device: truncate to 16 passes or pad with placeholders.
NormaliseToolPasses(passes) ==
    IF Len(passes) > RequiredToolPasses
    THEN SubSeq(passes, 1, RequiredToolPasses)
    ELSE IF Len(passes) < RequiredToolPasses
         THEN passes \o Repeat(SkippedPass, RequiredToolPasses - Len(passes))
         ELSE passes

(***************************************************************************)
(* The print bed (bed.rs).                                                 *)
(***************************************************************************)
\* bed.rs VALID_MM_RANGE: the lengths whose plotter-unit value fits an i16.
VALID_MM_RANGE_start == I16Min * MM_PER_PLOTTER_UNIT
VALID_MM_RANGE_end == I16Max * MM_PER_PLOTTER_UNIT

\* PrintBed::new's `validate`: f32::clamp to VALID_MM_RANGE.
validate(val) == Max(VALID_MM_RANGE_start, Min(VALID_MM_RANGE_end, val))

\* PrintBed::new, for axes given in order (it panics on the others).
PrintBedNew(x_axis, mirror_x, y_axis, mirror_y) ==
    [x_start |-> validate(x_axis[1]), x_end |-> validate(x_axis[2]), mirror_x |-> mirror_x,
     y_start |-> validate(y_axis[1]), y_end |-> validate(y_axis[2]), mirror_y |-> mirror_y]

BED_GCC_SPIRIT == PrintBedNew(<<0, BED_WIDTH_MM>>, FALSE, <<0, BED_HEIGHT_MM>>, TRUE)

\* f32::round: round half away from zero, of value / 0.025 mm.
RoundToPlotterUnits(value) ==
    IF value >= 0
    THEN (2 * value + MM_PER_PLOTTER_UNIT) \div (2 * MM_PER_PLOTTER_UNIT)
    ELSE -((2 * (-value) + MM_PER_PLOTTER_UNIT) \div (2 * MM_PER_PLOTTER_UNIT))

\* `as i16` of an f32 saturates.
SaturateI16(n) == Max(I16Min, Min(I16Max, n))

\* paths.rs mm_to_hpgl_units: the y axis is mirrored about the bed height.
mm_to_hpgl_units(mm, is_x_axis) ==
    LET position_mm == IF is_x_axis THEN mm ELSE BED_HEIGHT_MM - mm
    IN  SaturateI16(RoundToPlotterUnits(position_mm))

\* PrintBed::mm_to_hpgl_units_x / _y: one axis of the bed's mapping.
mm_to_hpgl_units_x(print_bed, mm) ==
    SaturateI16(RoundToPlotterUnits(
        IF print_bed.mirror_x THEN print_bed.x_end - mm ELSE mm))

mm_to_hpgl_units_y(print_bed, mm) ==
    SaturateI16(RoundToPlotterUnits(
        IF print_bed.mirror_y THEN print_bed.y_end - mm ELSE mm))

(***************************************************************************)
(* Paths (svg.rs, paths.rs).  A design is the sequence of its stroked,     *)
(* visible path nodes in document order; `points` are the samples the      *)
(* curve walker yields for the path and `closed` tells whether the path    *)
(* ends with a Close segment.  A map from colours to buckets is a function *)
(* whose domain is the set of colours that have a bucket.                  *)
(***************************************************************************)
EmptyMap == [c \in {} |-> <<>>]

\* A grouping that puts each new path in front of its bucket.
RECURSIVE group_paths_newest_first(_, _)
group_paths_newest_first(nodes, grouped_paths) ==
    IF nodes = <<>> THEN grouped_paths
    ELSE LET path == Head(nodes)
             c == path.colour
             entry == IF c \in DOMAIN grouped_paths THEN grouped_paths[c] ELSE <<>>
         IN  group_paths_newest_first(Tail(nodes),
                 [k \in DOMAIN grouped_paths \cup {c} |->
                     IF k = c THEN <<path>> \o entry ELSE grouped_paths[k]])

RECURSIVE group_paths_by_colour(_, _)
group_paths_by_colour(nodes, grouped_paths) ==
    IF nodes = <<>> THEN grouped_paths
    ELSE LET path == Head(nodes)
             c == path.colour
             entry == IF c \in DOMAIN grouped_paths THEN grouped_paths[c] ELSE <<>>
         IN  group_paths_by_colour(Tail(nodes),
                 [k \in DOMAIN grouped_paths \cup {c} |->
                     IF k = c THEN Append(entry, path) ELSE grouped_paths[k]])

get_paths_grouped_by_colour(svg) == group_paths_by_colour(svg, EmptyMap)

offset_point(point, off) == [x |-> point.x + off.x, y |-> point.y + off.y]

\* The body of resolve_paths for one path.
resolve_path(path, off) ==
    LET points == IF path.closed /\ path.points # <<>>
                  THEN Append(path.points, Head(path.points))
                  ELSE path.points
    IN  [i \in 1..Len(points) |-> offset_point(points[i], off)]

resolve_paths(paths_grouped_by_colour, off) ==
    [c \in DOMAIN paths_grouped_by_colour |->
        [i \in 1..Len(paths_grouped_by_colour[c]) |->
            resolve_path(paths_grouped_by_colour[c][i], off)]]

filter_paths_to_any_pass(paths, passes) ==
    LET kept == {c \in DOMAIN paths :
                    \E i \in 1..Len(passes) : passes[i].colour = c}
    IN  [c \in kept |-> paths[c]]

filter_paths_to_tool_passes(paths, passes) ==
    LET kept == {c \in DOMAIN paths :
                    \E i \in 1..Len(passes) :
                        passes[i].colour = c /\ passes[i].enabled}
    IN  [c \in kept |-> paths[c]]

points_in_mm_to_printer_units(points) ==
    [i \in 1..Len(points) |->
        [x |-> mm_to_hpgl_units(points[i].x, TRUE),
         y |-> mm_to_hpgl_units(points[i].y, FALSE)]]

convert_points_to_plotter_units(paths) ==
    [c \in DOMAIN paths |->
        [i \in 1..Len(paths[c]) |-> points_in_mm_to_printer_units(paths[c][i])]]

(***************************************************************************)
(* The same loops, walked in the order a HashMap hands out its keys.  The  *)
(* order is the map's RandomState: any order of the keys.                  *)
(***************************************************************************)
\* `for (key, value) in map`: the keys of map, in the order of the hasher.
iter(map, order) == SelectSeq(order, LAMBDA c : c \in DOMAIN map)

\* A push that goes to the bucket the map was first given, whatever the key.
entry_push_to_first(map, key, value) ==
    IF DOMAIN map = {} THEN (key :> <<value>>)
    ELSE LET first == CHOOSE k \in DOMAIN map : TRUE
         IN  [map EXCEPT ![first] = Append(@, value)]

\* map.entry(key).or_default().push(value)
entry_push(map, key, value) ==
    IF key \in DOMAIN map
    THEN [map EXCEPT ![key] = Append(@, value)]
    ELSE map @@ (key :> <<value>>)

\* The inner loop of resolve_paths: every path of one bucket, in order.
RECURSIVE resolve_bucket(_, _, _, _)
resolve_bucket(resolved, path_colour, paths, off) ==
    IF paths = <<>> THEN resolved
    ELSE resolve_bucket(entry_push(resolved, path_colour, resolve_path(Head(paths), off)),
                        path_colour, Tail(paths), off)

RECURSIVE resolve_buckets(_, _, _, _)
resolve_buckets(resolved, keys, paths_grouped_by_colour, off) ==
    IF keys = <<>> THEN resolved
    ELSE resolve_buckets(
             resolve_bucket(resolved, Head(keys), paths_grouped_by_colour[Head(keys)], off),
             Tail(keys), paths_grouped_by_colour, off)

resolve_paths_iter(paths_grouped_by_colour, off, order) ==
    resolve_buckets(EmptyMap, iter(paths_grouped_by_colour, order),
                    paths_grouped_by_colour, off)

\* The inner loop of convert_points_to_plotter_units.
RECURSIVE convert_bucket(_, _, _)
convert_bucket(resolved, path_colour, paths) ==
    IF paths = <<>> THEN resolved
    ELSE convert_bucket(
             entry_push(resolved, path_colour, points_in_mm_to_printer_units(Head(paths))),
             path_colour, Tail(paths))

RECURSIVE convert_buckets(_, _, _)
convert_buckets(resolved, keys, paths) ==
    IF keys = <<>> THEN resolved
    ELSE convert_buckets(convert_bucket(resolved, Head(keys), paths[Head(keys)]),
                         Tail(keys), paths)

convert_points_to_plotter_units_iter(paths, order) ==
    convert_buckets(EmptyMap, iter(paths, order), paths)

(***************************************************************************)
(* The HPGL emitter (hpgl.rs).                                             *)
(***************************************************************************)
NotSixteenDiagnostic == "Exactly 16 tool passes are required"
NoneEnabledDiagnostic == "No tool passes enabled"

\* A pen change that numbers pens from 0.
pen_change_from_zero(pen_index) == "SP" \o ToString(pen_index) \o ";"

\* format!("SP{};", pen_index + 1), pen_index counted from 0.
pen_change(pen_index) == "SP" \o ToString(pen_index + 1) \o ";"

RECURSIVE pen_down_moves(_, _)
pen_down_moves(path, from) ==
    IF from > Len(path) THEN ""
    ELSE "PD" \o ToString(path[from].x) \o "," \o ToString(path[from].y) \o ";"
         \o pen_down_moves(path, from + 1)

\* A trace that lowers the pen from the second point only.
trace_path_from_second(path) ==
    (IF path # <<>>
     THEN "PU" \o ToString(path[1].x) \o "," \o ToString(path[1].y) \o ";"
     ELSE "")
    \o pen_down_moves(path, 2)

trace_path(path) ==
    (IF path # <<>>
     THEN "PU" \o ToString(path[1].x) \o "," \o ToString(path[1].y) \o ";"
     ELSE "")
    \o pen_down_moves(path, 1)

RECURSIVE trace_paths(_, _)
trace_paths(bucket, from) ==
    IF from > Len(bucket) THEN ""
    ELSE trace_path(bucket[from]) \o trace_paths(bucket, from + 1)

\* An iteration that walks the tool program from its last pass.
pass_block_reversed(resolved, passes, index) ==
    LET mirrored == Len(passes) - 1 - index
        c == passes[mirrored + 1].colour
    IN  IF c \in DOMAIN resolved /\ resolved[c] # <<>>
        THEN pen_change(mirrored) \o trace_paths(resolved[c], 1)
        ELSE ""

\* One iteration of the 'laser_passes_iter loop, index counted from 0.
pass_block(resolved, passes, index) ==
    LET c == passes[index + 1].colour
    IN  IF c \in DOMAIN resolved /\ resolved[c] # <<>>
        THEN pen_change(index) \o trace_paths(resolved[c], 1)
        ELSE ""

RECURSIVE pass_blocks(_, _, _)
pass_blocks(resolved, passes, index) ==
    IF index >= Len(passes) THEN ""
    ELSE pass_block(resolved, passes, index) \o pass_blocks(resolved, passes, index + 1)

\* The 0-based index of the first enabled pass, or -1.
first_enabled(passes) ==
    IF \E i \in 1..Len(passes) : passes[i].enabled
    THEN (CHOOSE i \in 1..Len(passes) :
             passes[i].enabled /\ \A j \in 1..(i - 1) : ~passes[j].enabled) - 1
    ELSE -1

hpgl_header(passes, print_bed) ==
    "IN;SC;PU;" \o pen_change(first_enabled(passes)) \o "LT;PU"
    \o ToString(mm_to_hpgl_units_x(print_bed, 0)) \o ","
    \o ToString(mm_to_hpgl_units_y(print_bed, 0)) \o ";"

\* A terminator that parks at the plotter's origin instead of the bed's.
hpgl_terminator_unmapped(print_bed) == "PU0,0;SP0;EC0;EC1;OE;"

hpgl_terminator(print_bed) ==
    "PU" \o ToString(mm_to_hpgl_units_x(print_bed, 0)) \o ","
    \o ToString(mm_to_hpgl_units_y(print_bed, 0)) \o ";SP0;EC0;EC1;OE;"

\* An emitter that does not look for an enabled pass.
generate_hpgl_unchecked(resolved, passes, print_bed) ==
    IF Len(passes) # RequiredToolPasses THEN NotSixteenDiagnostic
    ELSE hpgl_header(passes, print_bed)
         \o pass_blocks(resolved, passes, 0)
         \o hpgl_terminator(print_bed)

generate_hpgl(resolved, passes, print_bed) ==
    IF Len(passes) # RequiredToolPasses THEN NotSixteenDiagnostic
    ELSE IF first_enabled(passes) < 0 THEN NoneEnabledDiagnostic
    ELSE hpgl_header(passes, print_bed)
         \o pass_blocks(resolved, passes, 0)
         \o hpgl_terminator(print_bed)

(***************************************************************************)
(* The PCL envelope (pcl.rs).                                              *)
(***************************************************************************)
pjl_universal_exit_language == ESC \o "%-12345X"
pcl_reset == ESC \o "E"
pcl_filename(filename) == ESC \o "!m" \o ToString(Len(filename)) \o "N" \o filename
pcl_raster_resolution(dpi) == ESC \o "*t" \o ToString(dpi) \o "R"
pcl_unit_of_measure(dpi) == ESC \o "&u" \o ToString(dpi) \o "R"
pcl_enter_pcl_mode == ESC \o "%1A"
pcl_enter_hpgl_mode == ESC \o "%1B"

\* format!("{:0>4}", n): the decimal digits, left-padded with 0 to width 4.
ZeroPad4(n) ==
    LET s == ToString(n)
    IN  IF Len(s) >= 4 THEN s ELSE SubSeq("0000", 1, 4 - Len(s)) \o s

\* What one of the five loops of pcl_pen_table appends for one pen.
pen_field(pen, section) ==
    CASE section = "R" -> "1"
      [] section = "I" -> "0400"
      [] section = "V" -> ZeroPad4(pen.speed)
      [] section = "P" -> ZeroPad4(pen.power)
      [] section = "D" -> IF pen.enabled THEN SOX ELSE NUL

RECURSIVE pen_fields(_, _, _)
pen_fields(passes, from, section) ==
    IF from > Len(passes) THEN ""
    ELSE pen_field(passes[from], section) \o pen_fields(passes, from + 1, section)

pcl_pen_table(passes) ==
    LET num_pens == Len(passes)
        message_bytes == num_pens * 4
    IN  ESC \o "!v" \o ToString(num_pens) \o "R" \o pen_fields(passes, 1, "R")
        \o ESC \o "!v" \o ToString(message_bytes) \o "I" \o pen_fields(passes, 1, "I")
        \o ESC \o "!v" \o ToString(message_bytes) \o "V" \o pen_fields(passes, 1, "V")
        \o ESC \o "!v" \o ToString(message_bytes) \o "P" \o pen_fields(passes, 1, "P")
        \o ESC \o "!v" \o ToString(num_pens) \o "D" \o pen_fields(passes, 1, "D")

\* An envelope that leaves out the closing reset.
wrap_hpgl_without_reset(hpgl_block, filename, passes) ==
    pjl_universal_exit_language
    \o pcl_reset
    \o pcl_filename(filename)
    \o pcl_pen_table(passes)
    \o pcl_raster_resolution(508)
    \o pcl_unit_of_measure(508)
    \o ESC \o "!r0N"
    \o pcl_enter_pcl_mode
    \o ESC \o "!r1000I" \o ESC \o "!r1000K" \o ESC \o "!r500P"
    \o pcl_raster_resolution(508)
    \o pcl_unit_of_measure(508)
    \o ESC \o "!m0S" \o ESC \o "!s1S"
    \o pcl_enter_hpgl_mode
    \o hpgl_block
    \o pcl_enter_pcl_mode
    \o pjl_universal_exit_language

wrap_hpgl_in_pcl(hpgl_block, filename, passes) ==
    pjl_universal_exit_language
    \o pcl_reset
    \o pcl_filename(filename)
    \o pcl_pen_table(passes)
    \o pcl_raster_resolution(508)
    \o pcl_unit_of_measure(508)
    \o ESC \o "!r0N"
    \o pcl_enter_pcl_mode
    \o ESC \o "!r1000I" \o ESC \o "!r1000K" \o ESC \o "!r500P"
    \o pcl_raster_resolution(508)
    \o pcl_unit_of_measure(508)
    \o ESC \o "!m0S" \o ESC \o "!s1S"
    \o pcl_enter_hpgl_mode
    \o hpgl_block
    \o pcl_enter_pcl_mode
    \o pcl_reset
    \o pjl_universal_exit_language

(***************************************************************************)
(* Inputs of a job.                                                        *)
(***************************************************************************)
PtA == [x |-> 0, y |-> 0]
PtB == [x |-> 10000, y |-> 0]
PtC == [x |-> 5000, y |-> 5000]

PathChoices ==
    { [colour |-> Black, points |-> <<PtA, PtB>>, closed |-> FALSE],
      [colour |-> Black, points |-> <<>>, closed |-> FALSE],
      [colour |-> Red, points |-> <<PtA, PtB, PtC>>, closed |-> TRUE],
      [colour |-> Green, points |-> <<PtB>>, closed |-> FALSE] }

Designs == UNION {[1..n -> PathChoices] : n \in 0..MaxPaths}

\* No offset, and an offset that moves the design to the far edge of the
\* bed: 815 mm + 10 mm is beyond the 819.175 mm that an i16 can hold.
Offsets == {[x |-> 0, y |-> 0], [x |-> 815000, y |-> 50000]}

FileNames == {"Logo", ESC \o "%1B"}

PassChoices ==
    {ToolPassNew("Pass", c[1], c[2], c[3], 100, 20, e) : c \in {Black, Red}, e \in BOOLEAN}

LastChoices ==
    {ToolPassNew("Pass 16", 0, 255, 0, 1000, 5, e) : e \in BOOLEAN}

FullProgram(first, second, last) ==
    <<first, second>> \o Repeat(default_passes[4], RequiredToolPasses - 3) \o <<last>>

\* serde's derived Deserialize for ToolPass: the fields as the file gives them.
DeserializeToolPass(name, colour, power, speed, enabled) ==
    [name |-> name, colour |-> colour, power |-> power, speed |-> speed,
     enabled |-> enabled]

\* A pass read from a tool-program file or a print job's JSON.
ImportedPass == DeserializeToolPass("Imported", Red, 12345, 5000, TRUE)

ImportedPrograms ==
    {FullProgram(ImportedPass, ToolPassNew("Pass", 0, 0, 0, 100, 20, TRUE), l) :
        l \in LastChoices}

ToolPrograms ==
    {<<a, b>> : a \in PassChoices, b \in PassChoices}
    \cup {FullProgram(a, b, l) : a \in PassChoices, b \in PassChoices, l \in LastChoices}
    \cup {Append(FullProgram(a, a, l), a) : a \in PassChoices, l \in LastChoices}
    \cup {default_passes, <<>>}
    \cup ImportedPrograms

(***************************************************************************)
(* State.                                                                  *)
(***************************************************************************)
VARIABLES
    pc,             \* position of the job in the pipeline
    entry,          \* "planchette" (send_file_to_device) or "direct" (cut_file)
    svg_ok,         \* whether the SVG of the job parses
    design,         \* the path nodes of the parsed SVG
    file_name,      \* the name of the design
    offset,         \* the design offset, in mm
    tool_passes,    \* the tool program
    grouped,        \* get_paths_grouped_by_colour's result
    paths_in_mm,    \* resolve_paths' result, then filtered in place
    resolved_paths, \* convert_points_to_plotter_units' result
    hpgl,           \* generate_hpgl's result
    pcl,            \* wrap_hpgl_in_pcl's result
    device,         \* the bytes written to the print device
    result,         \* what cut_file returned
    response        \* the HTTP status planchette answered with

job_vars == <<pc, entry, svg_ok, design, file_name, offset, tool_passes, grouped,
              paths_in_mm, resolved_paths, hpgl, pcl, device, result, response>>

VARIABLES
    design_file,              \* the hash of the loaded design, or NoDesign
    design_preview_image,     \* whether the DesignPreview exists
    size,                     \* DesignPreview.size
    design_offset_mm,         \* DesignPreview.design_offset_mm
    image_texture,            \* the request whose image is the texture, or 0
    waiting_render_callback,  \* the request whose receiver is kept, or 0
    render_request,           \* the mailbox: a request, or NoRequest
    tx,                       \* request -> state of the sender of its channel
    rx,                       \* request -> state of the receiver of its channel
    worker_pc,                \* position of render_task in its loop
    request,                  \* render_task's local `request`
    previous_size,            \* render_task's previous_size, or NoSize
    previous_design_hash,     \* render_task's previous_design_hash, or NoDesign
    next_request,             \* the number of the next request submitted
    overwritten,              \* history: requests replaced in the mailbox
    taken,                    \* history: requests the worker took
    processed,                \* history: requests render_inner returned for
    rendered,                 \* history: requests render_inner made an image of
    open_at_return            \* history: requests whose receiver was alive when
                              \* render_inner returned

preview_vars == <<design_file, design_preview_image, size, design_offset_mm,
                  image_texture, waiting_render_callback, render_request, tx, rx,
                  worker_pc, request, previous_size, previous_design_hash,
                  next_request, overwritten, taken, processed, rendered,
                  open_at_return>>

(***************************************************************************)
(* A tool pass under edit (laser_passes.rs) and a point being placed on a  *)
(* bed (bed.rs).                                                           *)
(***************************************************************************)
VARIABLES
    tool_pass,    \* the ToolPass
    last_call,    \* the last call made on it, with its argument
    print_bed,    \* the PrintBed
    bed_point,    \* the point in mm handed to place_point
    placed,       \* what place_point returned
    bed_pc        \* "call" before place_point, "returned" after it

\* Runs of the preparation pipeline on one input: the input, and for each
\* run so far the hasher state of its two maps and the bytes it produced.
VARIABLES run_input, prepared

runs_vars == <<run_input, prepared>>

\* The mailbox mutex, step by step: who holds the guard, what the mailbox
\* holds, where the render thread and the UI thread are, the request the
\* render thread took, and the number of requests submitted.
VARIABLES request_lock, mailbox, worker_at, producer_at, callback, submitted

lock_vars == <<request_lock, mailbox, worker_at, producer_at, callback, submitted>>

\* One SVG path being flattened by resolve_paths: its subpaths, the offset,
\* the polylines pushed to its bucket, and where the loop body is.
VARIABLES svg_path, flatten_offset, flattened, flatten_pc

flatten_vars == <<svg_path, flatten_offset, flattened, flatten_pc>>

\* One call of render_inner that draws: the size and the paths it draws, the
\* hasher state of the map of paths, the build (overflow checks on or off),
\* the texture, whether a usize subtraction went below 0, and where it is.
VARIABLES raster_input, raster_state, raster_build, canvas, underflowed, raster_pc

raster_vars == <<raster_input, raster_state, raster_build, canvas, underflowed, raster_pc>>

\* The tool pass list of the app: Seance.passes, the widget states kept
\* beside it, and whether the UI thread still runs.
VARIABLES app_passes, tool_pass_widget_states, widget_pc

widget_vars == <<app_passes, tool_pass_widget_states, widget_pc>>

more_vars == <<lock_vars, flatten_vars, raster_vars, widget_vars>>

unit_vars == <<tool_pass, last_call, print_bed, bed_point, placed, bed_pc, runs_vars,
               more_vars>>

vars == <<job_vars, preview_vars, unit_vars>>

beside_job == <<preview_vars, unit_vars>>
beside_preview == <<job_vars, unit_vars>>
beside_unit == <<job_vars, preview_vars, more_vars>>

\* Option::None of a placed point.
NoPoint == [some |-> FALSE, x |-> 0, y |-> 0]

\* Nobody is at the mailbox mutex.
LockIdle ==
    /\ request_lock = "none"
    /\ mailbox = 0
    /\ worker_at = "idle"
    /\ producer_at = "idle"
    /\ callback = 0
    /\ submitted = 0

\* No path is being flattened.
FlattenIdle ==
    /\ svg_path = <<>>
    /\ flatten_offset = [x |-> 0, y |-> 0]
    /\ flattened = <<>>
    /\ flatten_pc = "idle"

\* Nothing is being drawn.
RasterIdle ==
    /\ raster_input = [size |-> [x |-> 0, y |-> 0], paths |-> <<>>]
    /\ raster_state = <<>>
    /\ raster_build = "release"
    /\ canvas = <<>>
    /\ underflowed = FALSE
    /\ raster_pc = "idle"

\* No app window is open.
WidgetIdle ==
    /\ app_passes = <<>>
    /\ tool_pass_widget_states = <<>>
    /\ widget_pc = "idle"

MoreIdle == LockIdle /\ FlattenIdle /\ RasterIdle /\ WidgetIdle

\* No run of the pipeline is being compared.
RunsIdle ==
    /\ run_input = [design |-> <<>>, tool_passes |-> <<>>,
                    offset |-> [x |-> 0, y |-> 0], file_name |-> ""]
    /\ prepared = <<>>

\* No tool pass is under edit and no point is being placed.
UnitIdle ==
    /\ RunsIdle
    /\ MoreIdle
    /\ tool_pass = default_passes[1]
    /\ last_call = [op |-> "none", arg |-> 0]
    /\ print_bed = BED_GCC_SPIRIT
    /\ bed_point = [x |-> 0, y |-> 0]
    /\ placed = NoPoint
    /\ bed_pc = "idle"


JobInit ==
    /\ entry \in {"planchette", "direct"}
    /\ pc = IF entry = "planchette" THEN "received" ELSE "cut_file"
    /\ \/ svg_ok = FALSE /\ design = <<>>
       \/ svg_ok = TRUE /\ design \in Designs
    /\ file_name \in FileNames
    /\ offset \in Offsets
    /\ tool_passes \in ToolPrograms
    /\ grouped = EmptyMap
    /\ paths_in_mm = EmptyMap
    /\ resolved_paths = EmptyMap
    /\ hpgl = ""
    /\ pcl = ""
    /\ device = ""
    /\ result = "none"
    /\ response = "none"

\* The response send_file_to_device builds from cut_file's result.
StatusOf(res) ==
    CASE res = "Ok" -> "200 OK"
      [] res = "ErrorParsingSvg" -> "400 Bad Request"
      [] res = "FailedToOpenPrinter" -> "500 Internal Server Error"
      [] res = "FailedToWriteToPrinter" -> "500 Internal Server Error"

Finish(res) ==
    /\ result' = res
    /\ response' = IF entry = "planchette" THEN StatusOf(res) ELSE "none"
    /\ pc' = "done"

\* send_file_to_device up to its call of cut_file.
SendFileToDevice ==
    /\ UNCHANGED beside_job
    /\ pc = "received"
    /\ tool_passes' = NormaliseToolPasses(tool_passes)
    /\ IF svg_ok
       THEN pc' = "cut_file" /\ UNCHANGED <<result, response>>
       ELSE pc' = "done" /\ response' = "400 Bad Request" /\ UNCHANGED result
    /\ UNCHANGED <<entry, svg_ok, design, file_name, offset, grouped, paths_in_mm,
                   resolved_paths, hpgl, pcl, device>>

\* cut_file: `get_paths_grouped_by_colour(&design_file.tree)?`.
GroupPaths ==
    /\ UNCHANGED beside_job
    /\ pc = "cut_file"
    /\ IF svg_ok
       THEN /\ grouped' = get_paths_grouped_by_colour(design)
            /\ pc' = "grouped"
            /\ UNCHANGED <<result, response>>
       ELSE /\ Finish("ErrorParsingSvg")
            /\ UNCHANGED grouped
    /\ UNCHANGED <<entry, svg_ok, design, file_name, offset, tool_passes, paths_in_mm,
                   resolved_paths, hpgl, pcl, device>>

ResolvePaths ==
    /\ UNCHANGED beside_job
    /\ pc = "grouped"
    /\ paths_in_mm' = resolve_paths(grouped, offset)
    /\ pc' = "resolved"
    /\ UNCHANGED <<entry, svg_ok, design, file_name, offset, tool_passes, grouped,
                   resolved_paths, hpgl, pcl, device, result, response>>

FilterPaths ==
    /\ UNCHANGED beside_job
    /\ pc = "resolved"
    /\ paths_in_mm' = filter_paths_to_tool_passes(paths_in_mm, tool_passes)
    /\ pc' = "filtered"
    /\ UNCHANGED <<entry, svg_ok, design, file_name, offset, tool_passes, grouped,
                   resolved_paths, hpgl, pcl, device, result, response>>

ConvertPoints ==
    /\ UNCHANGED beside_job
    /\ pc = "filtered"
    /\ resolved_paths' = convert_points_to_plotter_units(paths_in_mm)
    /\ pc' = "converted"
    /\ UNCHANGED <<entry, svg_ok, design, file_name, offset, tool_passes, grouped,
                   paths_in_mm, hpgl, pcl, device, result, response>>

GenerateHpgl ==
    /\ UNCHANGED beside_job
    /\ pc = "converted"
    /\ hpgl' = generate_hpgl(resolved_paths, tool_passes, BED_GCC_SPIRIT)
    /\ pc' = "generated"
    /\ UNCHANGED <<entry, svg_ok, design, file_name, offset, tool_passes, grouped,
                   paths_in_mm, resolved_paths, pcl, device, result, response>>

WrapPcl ==
    /\ UNCHANGED beside_job
    /\ pc = "generated"
    /\ pcl' = wrap_hpgl_in_pcl(hpgl, file_name, tool_passes)
    /\ pc' = "wrapped"
    /\ UNCHANGED <<entry, svg_ok, design, file_name, offset, tool_passes, grouped,
                   paths_in_mm, resolved_paths, hpgl, device, result, response>>

\* PrintDevice::print: open the device, write the PCL.
SendToPrinter ==
    /\ UNCHANGED beside_job
    /\ pc = "wrapped"
    /\ \/ device' = device \o pcl /\ Finish("Ok")
       \/ UNCHANGED device /\ Finish("FailedToOpenPrinter")
       \/ UNCHANGED device /\ Finish("FailedToWriteToPrinter")
    /\ UNCHANGED <<entry, svg_ok, design, file_name, offset, tool_passes, grouped,
                   paths_in_mm, resolved_paths, hpgl, pcl>>

JobNext ==
    \/ SendFileToDevice
    \/ GroupPaths
    \/ ResolvePaths
    \/ FilterPaths
    \/ ConvertPoints
    \/ GenerateHpgl
    \/ WrapPcl
    \/ SendToPrinter

(***************************************************************************)
(* The design preview and its render worker (app/preview.rs, app.rs).      *)
(*                                                                         *)
(* A render request is numbered by the order of its submission; its reply  *)
(* channel is the oneshot channel of the same number.  tx and rx hold the  *)
(* state of the two ends of every channel.                                 *)
(***************************************************************************)
NoDesign == "None"
\* Option::None of a size, of a request.
NoSize == [x |-> 0, y |-> 0]
NoRequest == [id |-> 0, size |-> NoSize, design_offset_mm |-> [x |-> 0, y |-> 0]]

Requests == 1..MaxRequests
DesignHashes == {"hash 1", "hash 2"}
PreviewSizes == {[x |-> 640, y |-> 480], [x |-> 800, y |-> 600]}
OffsetInputs == {[x |-> -5, y |-> 20], [x |-> 0, y |-> 0], [x |-> 10, y |-> 20]}
DefaultOffset == [x |-> 0, y |-> 0]

PreviewInit ==
    /\ design_file = NoDesign
    /\ design_preview_image = FALSE
    /\ size = NoSize
    /\ design_offset_mm = DefaultOffset
    /\ image_texture = 0
    /\ waiting_render_callback = 0
    /\ render_request = NoRequest
    /\ tx = [r \in Requests |-> "none"]
    /\ rx = [r \in Requests |-> "none"]
    /\ worker_pc = "take"
    /\ request = NoRequest
    /\ previous_size = NoSize
    /\ previous_design_hash = NoDesign
    /\ next_request = 1
    /\ overwritten = {}
    /\ taken = {}
    /\ processed = {}
    /\ rendered = {}
    /\ open_at_return = {}

\* No job is in the pipeline.
JobIdle ==
    /\ pc = "idle"
    /\ entry = "none"
    /\ svg_ok = TRUE
    /\ design = <<>>
    /\ file_name = ""
    /\ offset = DefaultOffset
    /\ tool_passes = default_passes
    /\ grouped = EmptyMap
    /\ paths_in_mm = EmptyMap
    /\ resolved_paths = EmptyMap
    /\ hpgl = ""
    /\ pcl = ""
    /\ device = ""
    /\ result = "none"
    /\ response = "none"

history_vars == <<taken, processed, rendered, open_at_return>>
worker_vars == <<worker_pc, request, previous_size, previous_design_hash>>

\* A producer that keeps the receiver it already has, if it has one.
SubmitKeepingReceiver(new_size, new_offset) ==
    LET id == next_request
        pending == render_request.id
        kept == waiting_render_callback
    IN  /\ next_request <= MaxRequests
        /\ render_request' = [id |-> id, size |-> new_size, design_offset_mm |-> new_offset]
        /\ tx' = [r \in Requests |->
                    IF r = id THEN "alive"
                    ELSE IF r = pending THEN "dropped" ELSE tx[r]]
        /\ rx' = [r \in Requests |->
                    IF r = id THEN (IF kept = 0 THEN "alive" ELSE "dropped") ELSE rx[r]]
        /\ waiting_render_callback' = IF kept = 0 THEN id ELSE kept
        /\ next_request' = next_request + 1
        /\ overwritten' = IF pending # 0 THEN overwritten \cup {pending} ELSE overwritten

\* A producer puts a new request in the mailbox and keeps its receiver:
\* the body shared by DesignPreview::new, ::render and the Disconnected
\* arm of ::image.  The request that was pending is dropped with its
\* sender, the receiver that was kept is dropped.
SubmitRequest(new_size, new_offset) ==
    LET id == next_request
        pending == render_request.id
        kept == waiting_render_callback
    IN  /\ next_request <= MaxRequests
        /\ render_request' = [id |-> id, size |-> new_size, design_offset_mm |-> new_offset]
        /\ tx' = [r \in Requests |->
                    IF r = id THEN "alive"
                    ELSE IF r = pending THEN "dropped" ELSE tx[r]]
        /\ rx' = [r \in Requests |->
                    IF r = id THEN "alive"
                    ELSE IF r = kept THEN "dropped" ELSE rx[r]]
        /\ waiting_render_callback' = id
        /\ next_request' = next_request + 1
        /\ overwritten' = IF pending # 0 THEN overwritten \cup {pending} ELSE overwritten

\* An offset taken as it is given.
KeepOffset(offset_mm) == [x |-> offset_mm.x, y |-> offset_mm.y]

\* set_design_offset clamps both components at 0.
ClampOffset(offset_mm) == [x |-> Max(offset_mm.x, 0), y |-> Max(offset_mm.y, 0)]

\* UIMessage::DesignPreviewSize: create the preview, or resize it.
DesignPreviewSize(size_before_wrap) ==
    /\ UNCHANGED beside_preview
    /\ IF ~design_preview_image
       THEN /\ design_preview_image' = TRUE
            /\ size' = size_before_wrap
            /\ SubmitRequest(size_before_wrap, DefaultOffset)
       ELSE /\ size # size_before_wrap
            /\ size' = size_before_wrap
            /\ SubmitRequest(size_before_wrap, design_offset_mm)
            /\ UNCHANGED design_preview_image
    /\ UNCHANGED <<design_file, design_offset_mm, image_texture, worker_vars, history_vars>>

\* UIMessage::DesignFileChanged: store the design, render it.
DesignFileChanged(hash) ==
    /\ UNCHANGED beside_preview
    /\ design_file' = hash
    /\ IF design_preview_image
       THEN SubmitRequest(size, design_offset_mm)
       ELSE UNCHANGED <<render_request, tx, rx, waiting_render_callback, next_request,
                        overwritten>>
    /\ \/ design_preview_image
       \/ design_file # hash
    /\ UNCHANGED <<design_preview_image, size, design_offset_mm, image_texture,
                   worker_vars, history_vars>>

\* DesignPreview::set_design_offset, where UIMessage::MoveDesign,
\* ::DesignOffsetChanged and ::ResetDesignPosition all end.
SetDesignOffset(offset_mm) ==
    /\ UNCHANGED beside_preview
    /\ design_preview_image
    /\ ClampOffset(offset_mm) # design_offset_mm
    /\ design_offset_mm' = ClampOffset(offset_mm)
    /\ SubmitRequest(size, ClampOffset(offset_mm))
    /\ UNCHANGED <<design_file, design_preview_image, size, image_texture,
                   worker_vars, history_vars>>

Directions ==
    {"UpAndLeft", "Up", "UpAndRight", "Left", "Right",
     "DownAndLeft", "Down", "DownAndRight"}

\* The steps of a move, in mm: longer than the offsets handed in, shorter
\* than the offsets two moves reach; and a step backwards.
StepInputs == {-30, 30}

\* step_mm / sqrt(2), cut to whole mm.
step_each_side(step_mm) ==
    IF step_mm < 0 THEN -((-step_mm * 70711) \div 100000)
    ELSE (step_mm * 70711) \div 100000

\* DesignMoveDirection::apply
apply(direction, current_offset, step_mm) ==
    LET side == step_each_side(step_mm)
        x == current_offset.x
        y == current_offset.y
    IN  CASE direction = "UpAndLeft"    -> [x |-> x - side, y |-> y - side]
          [] direction = "Up"           -> [x |-> x, y |-> y - step_mm]
          [] direction = "UpAndRight"   -> [x |-> x + side, y |-> y - side]
          [] direction = "Left"         -> [x |-> x - step_mm, y |-> y]
          [] direction = "Right"        -> [x |-> x + step_mm, y |-> y]
          [] direction = "DownAndLeft"  -> [x |-> x - side, y |-> y + side]
          [] direction = "Down"         -> [x |-> x, y |-> y + step_mm]
          [] direction = "DownAndRight" -> [x |-> x + side, y |-> y + side]

\* UIMessage::MoveDesign
MoveDesign(direction, step) ==
    /\ design_preview_image
    /\ SetDesignOffset(apply(direction, design_offset_mm, step))

\* UIMessage::DesignOffsetChanged
DesignOffsetChanged(offset_mm) ==
    /\ design_preview_image
    /\ SetDesignOffset(offset_mm)

\* UIMessage::ResetDesignPosition
ResetDesignPosition ==
    /\ design_preview_image
    /\ SetDesignOffset(DefaultOffset)

\* DesignPreview::image, called by design_file_widget when a design is
\* loaded: poll the kept receiver.  On Empty nothing changes.
Image ==
    /\ UNCHANGED beside_preview
    /\ design_preview_image
    /\ design_file # NoDesign
    /\ waiting_render_callback # 0
    /\ LET waiting == waiting_render_callback
       IN  \/ /\ tx[waiting] = "sent"
              /\ image_texture' = waiting
              /\ waiting_render_callback' = 0
              /\ rx' = [rx EXCEPT ![waiting] = "received"]
              /\ UNCHANGED <<render_request, tx, next_request, overwritten>>
           \/ /\ tx[waiting] = "dropped"
              /\ SubmitRequest(size, design_offset_mm)
              /\ UNCHANGED image_texture
    /\ UNCHANGED <<design_file, design_preview_image, size, design_offset_mm,
                   worker_vars, history_vars>>

producer_vars == <<design_file, design_preview_image, size, design_offset_mm,
                   image_texture, waiting_render_callback, next_request>>

\* A worker that reads the mailbox and leaves the request in it.
Peek ==
    /\ UNCHANGED beside_preview
    /\ worker_pc = "take"
    /\ request' = render_request
    /\ worker_pc' = IF render_request # NoRequest THEN "render" ELSE "sleep"
    /\ taken' = IF render_request # NoRequest THEN taken \cup {render_request.id} ELSE taken
    /\ UNCHANGED <<producer_vars, render_request, tx, rx, previous_size,
                   previous_design_hash, overwritten, processed, rendered, open_at_return>>

\* render_task: lock the mailbox and take what is in it.
Take ==
    /\ UNCHANGED beside_preview
    /\ worker_pc = "take"
    /\ request' = render_request
    /\ render_request' = NoRequest
    /\ worker_pc' = IF render_request # NoRequest THEN "render" ELSE "sleep"
    /\ taken' = IF render_request # NoRequest THEN taken \cup {render_request.id} ELSE taken
    /\ UNCHANGED <<producer_vars, tx, rx, previous_size, previous_design_hash,
                   overwritten, processed, rendered, open_at_return>>

\* The early return of render_inner.
NothingHasChanged(requested_size, design_hash) ==
    requested_size = previous_size /\ design_hash = previous_design_hash

\* render_task: render_inner on the request taken.
RenderInner ==
    /\ UNCHANGED beside_preview
    /\ worker_pc = "render"
    /\ LET id == request.id
       IN  /\ IF NothingHasChanged(request.size, design_file)
              THEN /\ tx' = [tx EXCEPT ![id] = "dropped"]
                   /\ UNCHANGED <<previous_size, previous_design_hash, rendered>>
              ELSE /\ previous_size' = request.size
                   /\ previous_design_hash' = design_file
                   /\ rendered' = rendered \cup {id}
                   /\ tx' = [tx EXCEPT ![id] = IF rx[id] = "alive" THEN "sent" ELSE "dropped"]
           /\ processed' = processed \cup {id}
           /\ open_at_return' = IF rx[id] = "alive" THEN open_at_return \cup {id}
                                ELSE open_at_return
    /\ request' = NoRequest
    /\ worker_pc' = "sleep"
    /\ UNCHANGED <<producer_vars, render_request, rx, overwritten, taken>>

\* render_task: `std::thread::sleep(Duration::from_millis(100))`.
Sleep ==
    /\ UNCHANGED beside_preview
    /\ worker_pc = "sleep"
    /\ worker_pc' = "take"
    /\ UNCHANGED <<producer_vars, render_request, tx, rx, request, previous_size,
                   previous_design_hash, overwritten, history_vars>>

Producer ==
    \/ \E s \in PreviewSizes : DesignPreviewSize(s)
    \/ \E h \in DesignHashes : DesignFileChanged(h)
    \/ \E o \in OffsetInputs : SetDesignOffset(o)
    \/ Image

Worker == Take \/ RenderInner \/ Sleep

PreviewNext == Producer \/ Worker

IdleInit == JobIdle /\ PreviewInit /\ UnitIdle

PreviewSpec == IdleInit /\ [][PreviewNext]_vars

\* The size the UI first reports for the preview.
FirstSize == [x |-> 640, y |-> 480]

\* The messages that move the design, one by one, beside the worker.
Mover ==
    \/ DesignPreviewSize(FirstSize)
    \/ ResetDesignPosition
    \/ \E direction \in Directions, step \in StepInputs : MoveDesign(direction, step)
    \/ \E o \in OffsetInputs : DesignOffsetChanged(o)

OffsetNext == Mover \/ Worker

OffsetSpec == IdleInit /\ [][OffsetNext]_vars

\* The messages that change what the preview shows.
Change ==
    \/ \E s \in PreviewSizes : DesignPreviewSize(s)
    \/ \E h \in DesignHashes : DesignFileChanged(h)
    \/ \E o \in OffsetInputs : SetDesignOffset(o)

\* The render thread is never starved, and the UI keeps painting the
\* preview of a loaded design, which polls the receiver.
FairPreviewSpec == PreviewSpec /\ WF_vars(Worker) /\ WF_vars(Image)

(***************************************************************************)
(* Editing a tool pass (laser_passes.rs).                                  *)
(***************************************************************************)
tool_pass_vars == <<tool_pass, last_call>>
bed_vars == <<print_bed, bed_point, placed, bed_pc>>

\* Arguments of type u64 for power and speed.
PowerInputs == {0, 10, 1000, 1001, 1000000}
NameInputs == {"", "Engrave"}
ColourInputs == {Black, Red}

\* A set_power that stores its argument as it is.
set_power_unclamped(pass, power) == [pass EXCEPT !.power = power]

set_power(pass, power) == [pass EXCEPT !.power = Min(power, MaxPowerSpeed)]

set_speed(pass, speed) == [pass EXCEPT !.speed = Min(speed, MaxPowerSpeed)]

set_enabled(pass, new_state) == [pass EXCEPT !.enabled = new_state]

set_name(pass, name) == [pass EXCEPT !.name = name]

set_colour(pass, colour) == [pass EXCEPT !.colour = colour]

ToolPassInit ==
    /\ \E power \in PowerInputs, speed \in PowerInputs, enabled \in BOOLEAN :
          /\ tool_pass = ToolPassNew("", 0, 0, 0, power, speed, enabled)
          /\ last_call = [op |-> "new", arg |-> power]
    /\ RunsIdle
    /\ MoreIdle
    /\ print_bed = BED_GCC_SPIRIT
    /\ bed_point = [x |-> 0, y |-> 0]
    /\ placed = NoPoint
    /\ bed_pc = "idle"

SetPower(power) ==
    /\ tool_pass' = set_power(tool_pass, power)
    /\ last_call' = [op |-> "set_power", arg |-> power]
    /\ UNCHANGED <<bed_vars, runs_vars, beside_unit>>

SetSpeed(speed) ==
    /\ tool_pass' = set_speed(tool_pass, speed)
    /\ last_call' = [op |-> "set_speed", arg |-> speed]
    /\ UNCHANGED <<bed_vars, runs_vars, beside_unit>>

SetEnabled(new_state) ==
    /\ tool_pass' = set_enabled(tool_pass, new_state)
    /\ last_call' = [op |-> "set_enabled", arg |-> 0]
    /\ UNCHANGED <<bed_vars, runs_vars, beside_unit>>

SetName(name) ==
    /\ tool_pass' = set_name(tool_pass, name)
    /\ last_call' = [op |-> "set_name", arg |-> 0]
    /\ UNCHANGED <<bed_vars, runs_vars, beside_unit>>

SetColour(colour) ==
    /\ tool_pass' = set_colour(tool_pass, colour)
    /\ last_call' = [op |-> "set_colour", arg |-> 0]
    /\ UNCHANGED <<bed_vars, runs_vars, beside_unit>>

ToolPassNext ==
    \/ \E power \in PowerInputs : SetPower(power)
    \/ \E speed \in PowerInputs : SetSpeed(speed)
    \/ \E new_state \in BOOLEAN : SetEnabled(new_state)
    \/ \E name \in NameInputs : SetName(name)
    \/ \E colour \in ColourInputs : SetColour(colour)

ToolPassIdleInit == JobIdle /\ PreviewInit /\ ToolPassInit

ToolPassSpec == ToolPassIdleInit /\ [][ToolPassNext]_vars

(***************************************************************************)
(* Placing a point on a bed (bed.rs).                                      *)
(***************************************************************************)
\* Option<i16>::None, Some.
NoUnits == [some |-> FALSE, value |-> 0]
SomeUnits(value) == [some |-> TRUE, value |-> value]

\* Option<f32>: `self.mirror_x.then_some(*self.x_axis.end())`.
NoMirror == [some |-> FALSE, max |-> 0]
then_some(mirror, max) == IF mirror THEN [some |-> TRUE, max |-> max] ELSE NoMirror

\* An axis conversion that does not mirror.
mm_to_hpgl_unmirrored(value, mirror) ==
    IF value < I16Min * MM_PER_PLOTTER_UNIT \/ value > I16Max * MM_PER_PLOTTER_UNIT
    THEN NoUnits
    ELSE SomeUnits(RoundToPlotterUnits(value))

\* place_point's inner mm_to_hpgl: `adjusted`, the quotient before it is
\* rounded, is what is compared with the range of an i16.
mm_to_hpgl(value, mirror) ==
    LET mirrored == IF mirror.some THEN mirror.max - value ELSE value
    IN  IF mirrored < I16Min * MM_PER_PLOTTER_UNIT
           \/ mirrored > I16Max * MM_PER_PLOTTER_UNIT
        THEN NoUnits
        ELSE SomeUnits(RoundToPlotterUnits(mirrored))

\* PrintBed::place_point, for finite coordinates (it panics on the others).
place_point(bed, p) ==
    IF ~(bed.x_start <= p.x /\ p.x <= bed.x_end) THEN NoPoint
    ELSE IF ~(bed.y_start <= p.y /\ p.y <= bed.y_end) THEN NoPoint
    ELSE LET x == mm_to_hpgl(p.x, then_some(bed.mirror_x, bed.x_end))
             y == mm_to_hpgl(p.y, then_some(bed.mirror_y, bed.y_end))
         IN  IF x.some /\ y.some
             THEN [some |-> TRUE, x |-> x.value, y |-> y.value]
             ELSE NoPoint

\* The GCC Spirit bed, a bed with both axes mirrored and starting below 0,
\* and the GCC Spirit bed with the axis starts its source comments give.
Beds ==
    {BED_GCC_SPIRIT,
     PrintBedNew(<<-10000, 900000>>, TRUE, <<-5000, 400000>>, TRUE),
     PrintBedNew(<<-50720, BED_WIDTH_MM>>, FALSE, <<-4800, BED_HEIGHT_MM>>, FALSE)}

XInputs == {-50720, -10000, -10, 0, 10000, 819175, 819180, 900000, BED_WIDTH_MM}
YInputs == {-5000, -4800, 0, 12, 13, 10000, 400000, BED_HEIGHT_MM, 500000}

BedInit ==
    /\ print_bed \in Beds
    /\ bed_point \in [x : XInputs, y : YInputs]
    /\ placed = NoPoint
    /\ bed_pc = "call"
    /\ tool_pass = default_passes[1]
    /\ last_call = [op |-> "none", arg |-> 0]
    /\ RunsIdle
    /\ MoreIdle

PlacePoint ==
    /\ bed_pc = "call"
    /\ placed' = place_point(print_bed, bed_point)
    /\ bed_pc' = "returned"
    /\ UNCHANGED <<print_bed, bed_point, tool_pass_vars, runs_vars, beside_unit>>

BedNext == PlacePoint

BedIdleInit == JobIdle /\ PreviewInit /\ BedInit

BedSpec == BedIdleInit /\ [][BedNext]_vars

(***************************************************************************)
(* The preparation pipeline run again on the same input (the snapshot      *)
(* tests): each run's maps have a RandomState of their own.                *)
(***************************************************************************)
PathColours == {Black, Red, Green}

\* The orders in which a map may hand out the colours.
RandomStates ==
    {order \in [1..Cardinality(PathColours) -> PathColours] :
        \A i, j \in DOMAIN order : i # j => order[i] # order[j]}

\* The tool passes of the snapshot tests (the default passes, all enabled),
\* a program whose second pass is disabled, and one with two passes of one
\* colour.
RunPrograms ==
    {[i \in DOMAIN default_passes |-> set_enabled(default_passes[i], TRUE)],
     FullProgram(ToolPassNew("Pass", 0, 0, 0, 100, 20, TRUE),
                 ToolPassNew("Pass", 255, 0, 0, 100, 20, FALSE),
                 ToolPassNew("Pass 16", 0, 255, 0, 1000, 5, TRUE)),
     FullProgram(ToolPassNew("Pass", 255, 0, 0, 100, 20, TRUE),
                 ToolPassNew("Pass", 255, 0, 0, 100, 20, TRUE),
                 ToolPassNew("Pass 16", 0, 255, 0, 1000, 5, TRUE))}

\* The hasher states of the two maps of one run: the map of the design's
\* paths, and the map of the paths in mm, which hands out the colours in the
\* same order or in the opposite one.
Reversed(order) == [i \in DOMAIN order |-> order[Len(order) + 1 - i]]

MapStates ==
    {[grouped_state |-> order, in_mm_state |-> other] :
        order \in RandomStates, other \in RandomStates}

RunStates ==
    {state \in MapStates :
        state.in_mm_state \in {state.grouped_state, Reversed(state.grouped_state)}}

ComparedRuns == 2

\* The pipeline of cut_file and of the snapshot tests, up to the PCL bytes.
prepare(input, grouped_state, in_mm_state) ==
    LET paths == get_paths_grouped_by_colour(input.design)
        in_mm == resolve_paths_iter(paths, input.offset, grouped_state)
        filtered == filter_paths_to_tool_passes(in_mm, input.tool_passes)
        resolved == convert_points_to_plotter_units_iter(filtered, in_mm_state)
    IN  wrap_hpgl_in_pcl(generate_hpgl(resolved, input.tool_passes, BED_GCC_SPIRIT),
                         input.file_name, input.tool_passes)

RunsInit ==
    /\ run_input \in [design : Designs, tool_passes : RunPrograms,
                      offset : {[x |-> 0, y |-> 0]}, file_name : {"Logo"}]
    /\ prepared = <<>>
    /\ MoreIdle
    /\ tool_pass = default_passes[1]
    /\ last_call = [op |-> "none", arg |-> 0]
    /\ print_bed = BED_GCC_SPIRIT
    /\ bed_point = [x |-> 0, y |-> 0]
    /\ placed = NoPoint
    /\ bed_pc = "idle"

Prepare ==
    /\ Len(prepared) < ComparedRuns
    /\ \E state \in RunStates :
          prepared' = Append(prepared,
                             [grouped_state |-> state.grouped_state,
                              in_mm_state |-> state.in_mm_state,
                              pcl |-> prepare(run_input, state.grouped_state,
                                              state.in_mm_state)])
    /\ UNCHANGED <<run_input, tool_pass_vars, bed_vars, beside_unit>>

RunsNext == Prepare

RunsIdleInit == JobIdle /\ PreviewInit /\ RunsInit

RunsSpec == RunsIdleInit /\ [][RunsNext]_vars

(***************************************************************************)
(* The mailbox mutex (preview.rs): render_task and DesignPreview::render,  *)
(* one step per lock, store, take and unlock.                              *)
(***************************************************************************)
beside_lock == <<job_vars, preview_vars, tool_pass_vars, bed_vars, runs_vars,
                 flatten_vars, raster_vars, widget_vars>>

LockInit ==
    /\ request_lock = "none"
    /\ mailbox = 0
    /\ worker_at = "lock"
    /\ producer_at = "idle"
    /\ callback = 0
    /\ submitted = 0
    /\ FlattenIdle
    /\ RasterIdle
    /\ WidgetIdle
    /\ RunsIdle
    /\ tool_pass = default_passes[1]
    /\ last_call = [op |-> "none", arg |-> 0]
    /\ print_bed = BED_GCC_SPIRIT
    /\ bed_point = [x |-> 0, y |-> 0]
    /\ placed = NoPoint
    /\ bed_pc = "idle"

\* A UI message that ends in DesignPreview::render arrives.
ProducerRender ==
    /\ producer_at = "idle"
    /\ submitted < MaxRequests
    /\ producer_at' = "lock"
    /\ UNCHANGED <<request_lock, mailbox, worker_at, callback, submitted, beside_lock>>

\* DesignPreview::render: `self.render_request.lock()`.
ProducerLock ==
    /\ producer_at = "lock"
    /\ request_lock = "none"
    /\ request_lock' = "producer"
    /\ producer_at' = "store"
    /\ UNCHANGED <<mailbox, worker_at, callback, submitted, beside_lock>>

\* DesignPreview::render: store the request; the guard drops at the brace.
ProducerStore ==
    /\ producer_at = "store"
    /\ mailbox' = submitted + 1
    /\ submitted' = submitted + 1
    /\ request_lock' = "none"
    /\ producer_at' = "idle"
    /\ UNCHANGED <<worker_at, callback, beside_lock>>

\* A render thread that keeps the guard after its take.
WorkerTakeHolding ==
    /\ worker_at = "take"
    /\ callback' = mailbox
    /\ mailbox' = 0
    /\ worker_at' = IF mailbox # 0 THEN "render" ELSE "sleep"
    /\ UNCHANGED <<request_lock, producer_at, submitted, beside_lock>>

\* render_task: `render_request.lock()`.
WorkerLock ==
    /\ worker_at = "lock"
    /\ request_lock = "none"
    /\ request_lock' = "worker"
    /\ worker_at' = "take"
    /\ UNCHANGED <<mailbox, producer_at, callback, submitted, beside_lock>>

\* render_task: `request_lock.take()`; the guard drops at the brace.
WorkerTake ==
    /\ worker_at = "take"
    /\ callback' = mailbox
    /\ mailbox' = 0
    /\ request_lock' = "none"
    /\ worker_at' = IF mailbox # 0 THEN "render" ELSE "sleep"
    /\ UNCHANGED <<producer_at, submitted, beside_lock>>

\* render_inner, up to the image.
WorkerRender ==
    /\ worker_at = "render"
    /\ worker_at' = "send"
    /\ UNCHANGED <<request_lock, mailbox, producer_at, callback, submitted, beside_lock>>

\* render_inner: `callback.send(..)`.
WorkerSend ==
    /\ worker_at = "send"
    /\ callback' = 0
    /\ worker_at' = "sleep"
    /\ UNCHANGED <<request_lock, mailbox, producer_at, submitted, beside_lock>>

\* render_task: `std::thread::sleep(..)`.
WorkerSleep ==
    /\ worker_at = "sleep"
    /\ worker_at' = "lock"
    /\ UNCHANGED <<request_lock, mailbox, producer_at, callback, submitted, beside_lock>>

LockNext ==
    \/ ProducerRender
    \/ ProducerLock
    \/ ProducerStore
    \/ WorkerLock
    \/ WorkerTake
    \/ WorkerRender
    \/ WorkerSend
    \/ WorkerSleep

LockIdleInit == JobIdle /\ PreviewInit /\ LockInit

LockSpec == LockIdleInit /\ [][LockNext]_vars

(***************************************************************************)
(* The body of resolve_paths for one SVG path with its subpaths            *)
(* (paths.rs).  A subpath is the points walk_along_path samples on it and  *)
(* whether a Close segment ends it.                                        *)
(***************************************************************************)
MaxSubpaths == 2

SubpathSamples ==
    {<<PtA, PtB>>, <<PtA, PtB, PtC>>, <<PtC, PtB>>, <<PtB, PtC, PtA>>}

Subpaths == [points : SubpathSamples, closed : BOOLEAN]

\* The paths whose every subpath the loop ends before it begins the next:
\* a path of one subpath, or of closed subpaths only.
SvgPaths ==
    {path \in UNION {[1..n -> Subpaths] : n \in 1..MaxSubpaths} :
        Len(path) > 1 => \A k \in DOMAIN path : path[k].closed}

FlattenOffsets == Offsets \cup {[x |-> 10000, y |-> 20000]}

\* `closed`: a Close segment was met anywhere in the path.
any_closed(path) == \E k \in DOMAIN path : path[k].closed

\* walk_along_path over the built path: the samples of every subpath, in one vector.
RECURSIVE points_along_path(_)
points_along_path(path) ==
    IF path = <<>> THEN <<>>
    ELSE Head(path).points \o points_along_path(Tail(path))

\* What the loop body pushes to the bucket of the path's colour.
resolved_points_of(path, off) ==
    LET sampled == points_along_path(path)
        points == IF any_closed(path) /\ sampled # <<>>
                  THEN Append(sampled, Head(sampled))
                  ELSE sampled
    IN  << [i \in 1..Len(points) |-> offset_point(points[i], off)] >>

beside_flatten == <<job_vars, preview_vars, tool_pass_vars, bed_vars, runs_vars,
                    lock_vars, raster_vars, widget_vars>>

FlattenInit ==
    /\ svg_path \in SvgPaths
    /\ flatten_offset \in FlattenOffsets
    /\ flattened = <<>>
    /\ flatten_pc = "path"
    /\ LockIdle
    /\ RasterIdle
    /\ WidgetIdle
    /\ RunsIdle
    /\ tool_pass = default_passes[1]
    /\ last_call = [op |-> "none", arg |-> 0]
    /\ print_bed = BED_GCC_SPIRIT
    /\ bed_point = [x |-> 0, y |-> 0]
    /\ placed = NoPoint
    /\ bed_pc = "idle"

\* resolve_paths: one turn of `for path in paths`.
FlattenPath ==
    /\ flatten_pc = "path"
    /\ flattened' = resolved_points_of(svg_path, flatten_offset)
    /\ flatten_pc' = "pushed"
    /\ UNCHANGED <<svg_path, flatten_offset, beside_flatten>>

FlattenNext == FlattenPath

FlattenIdleInit == JobIdle /\ PreviewInit /\ FlattenInit

FlattenSpec == FlattenIdleInit /\ [][FlattenNext]_vars

(***************************************************************************)
(* The rasteriser of render_inner (preview.rs).  Lengths are integers of   *)
(* micrometres; a pixel of the texture is the colour of the background, of *)
(* the grid or of a path; the texture is the sequence of its pixels, row by*)
(* row, pixel (x, y) at index y * texture_width + x, counted from 0.       *)
(***************************************************************************)
MAX_ZOOM_LEVEL == 5
PREVIEW_BACKGROUND_COLOUR == <<230, 230, 230>>
PREVIEW_GRID_COLOUR == <<100, 100, 100>>
PREVIEW_LINE_THICKNESS_PIXELS == 4

zoomed_bounding_box_width(image_size) == image_size.x * MAX_ZOOM_LEVEL
zoomed_bounding_box_height(image_size) == image_size.y * MAX_ZOOM_LEVEL
texture_width(image_size) == zoomed_bounding_box_width(image_size)
texture_height(image_size) == zoomed_bounding_box_height(image_size)

\* `(mm * pixels_per_mm_x).ceil() as usize`, pixels_per_mm_x being
\* zoomed_bounding_box_width / BED_WIDTH_MM; both coordinates use it.
pixel_of(mm, image_size) ==
    (mm * zoomed_bounding_box_width(image_size) + BED_WIDTH_MM - 1) \div BED_WIDTH_MM

\* The fractional part of pixel / pixels_per_10_mm is at most 0.1 or at least 0.9.
near_marker(pixel, bed, zoomed) ==
    LET whole == zoomed * 10000
        part == (pixel * bed) % whole
    IN  10 * part <= whole \/ 10 * part >= 9 * whole

\* The first loop over the texture: the 10 mm markers on the background.
grid_pixel(index, image_size) ==
    LET x == index % texture_width(image_size)
        y == index \div texture_width(image_size)
    IN  IF near_marker(y, BED_HEIGHT_MM, zoomed_bounding_box_height(image_size))
           /\ near_marker(x, BED_WIDTH_MM, zoomed_bounding_box_width(image_size))
        THEN PREVIEW_GRID_COLOUR ELSE PREVIEW_BACKGROUND_COLOUR

background(image_size) ==
    [k \in 1..(texture_width(image_size) * texture_height(image_size)) |-> grid_pixel(k - 1, image_size)]

half_thickness == PREVIEW_LINE_THICKNESS_PIXELS \div 2

\* `pixel - 2` is below 0 in usize.
underflows(pixel) == pixel < half_thickness

\* A range that starts at `pixel - 2` even where that is below 0.
mark_range_signed(pixel) == (pixel - half_thickness)..(pixel + half_thickness - 1)

\* `(pixel - 2)..(pixel + 2)` without overflow checks: where the subtraction
\* wraps, the start is greater than the end and the range is empty.
mark_range(pixel) ==
    IF underflows(pixel) THEN {}
    ELSE (pixel - half_thickness)..(pixel + half_thickness - 1)

\* The indices `(y * texture_width) + x` that the two loops of a point reach.
mark_indices(pixel_x, pixel_y, image_size) ==
    {y * texture_width(image_size) + x :
        <<x, y>> \in {cell \in mark_range(pixel_x) \X mark_range(pixel_y) :
                         cell[1] = pixel_x \/ cell[2] = pixel_y}}

\* The plus mark of one point; `chunks_mut(4).nth(..)` is None past the buffer.
plot_point(texture, colour, point, image_size) ==
    LET indices == mark_indices(pixel_of(point.x, image_size), pixel_of(point.y, image_size), image_size)
    IN  [k \in DOMAIN texture |-> IF (k - 1) \in indices THEN colour ELSE texture[k]]

RECURSIVE plot_path(_, _, _, _)
plot_path(texture, colour, path, image_size) ==
    IF path = <<>> THEN texture
    ELSE plot_path(plot_point(texture, colour, Head(path), image_size), colour, Tail(path), image_size)

RECURSIVE plot_paths(_, _, _, _)
plot_paths(texture, colour, paths, image_size) ==
    IF paths = <<>> THEN texture
    ELSE plot_paths(plot_path(texture, colour, Head(paths), image_size), colour, Tail(paths), image_size)

\* `for (path_colour, paths) in resolved_paths`, in the order of the hasher.
RECURSIVE plot_buckets(_, _, _, _)
plot_buckets(texture, keys, resolved, image_size) ==
    IF keys = <<>> THEN texture
    ELSE plot_buckets(plot_paths(texture, Head(keys), resolved[Head(keys)], image_size),
                      Tail(keys), resolved, image_size)

\* The texture render_inner sends.
rendered_image(input, order) ==
    plot_buckets(background(input.size), iter(input.paths, order), input.paths,
                 input.size)

\* The points render_inner plots.
plotted_points(input) ==
    UNION {{input.paths[c][i][k] : k \in DOMAIN input.paths[c][i]} :
             <<c, i>> \in {pair \in (DOMAIN input.paths) \X (1..MaxPaths) :
                             pair[2] \in DOMAIN input.paths[pair[1]]}}

any_underflow(input) ==
    \E point \in plotted_points(input) :
        underflows(pixel_of(point.x, input.size))
        \/ underflows(pixel_of(point.y, input.size))

\* The points of the drawn designs, offset included: the origin, points in
\* the middle of the bed whose marks overlap, and a point by the right edge.
RasterPoints ==
    {[x |-> 0, y |-> 0], [x |-> 100000, y |-> 200000], [x |-> 200000, y |-> 200000],
     [x |-> 500000, y |-> 300000], [x |-> 850000, y |-> 200000]}

RasterSizes == {[x |-> 2, y |-> 1]}

\* A design of one black and one red path of one point each.
RasterInputs ==
    {[size |-> image_size, paths |-> (Black :> << <<b>> >>) @@ (Red :> << <<r>> >>)] :
        image_size \in RasterSizes, b \in RasterPoints, r \in RasterPoints}

\* The orders in which the map of paths may hand out its colours.
RasterStates == RandomStates

beside_raster == <<job_vars, preview_vars, tool_pass_vars, bed_vars, runs_vars,
                   lock_vars, flatten_vars, widget_vars>>

RasterInit ==
    /\ raster_input \in RasterInputs
    /\ raster_state \in RasterStates
    /\ raster_build \in {"debug", "release"}
    /\ canvas = background(raster_input.size)
    /\ underflowed = FALSE
    /\ raster_pc = "draw"
    /\ LockIdle
    /\ FlattenIdle
    /\ WidgetIdle
    /\ RunsIdle
    /\ tool_pass = default_passes[1]
    /\ last_call = [op |-> "none", arg |-> 0]
    /\ print_bed = BED_GCC_SPIRIT
    /\ bed_point = [x |-> 0, y |-> 0]
    /\ placed = NoPoint
    /\ bed_pc = "idle"

\* render_inner from the loop over the paths to the send.  With overflow
\* checks a subtraction below 0 panics; without them it wraps.
DrawPaths ==
    /\ raster_pc = "draw"
    /\ underflowed' = any_underflow(raster_input)
    /\ IF raster_build = "debug" /\ any_underflow(raster_input)
       THEN raster_pc' = "panicked" /\ UNCHANGED canvas
       ELSE /\ canvas' = rendered_image(raster_input, raster_state)
            /\ raster_pc' = "sent"
    /\ UNCHANGED <<raster_input, raster_state, raster_build, beside_raster>>

RasterNext == DrawPaths

RasterIdleInit == JobIdle /\ PreviewInit /\ RasterInit

RasterSpec == RasterIdleInit /\ [][RasterNext]_vars

(***************************************************************************)
(* The list of tool passes in the app window (app.rs): Seance.passes and   *)
(* Seance.tool_pass_widget_states, the messages that touch them, and the   *)
(* widget that draws them.  An index counts from 0 as in the source; the   *)
(* state of a widget is the aspect of its pass under edit.                 *)
(***************************************************************************)
ToolPassWidgetStateNew == "None"

\* The programs in storage and in the files a user imports: none, shorter
\* than the default, the default, longer than it, and a full one.
WidgetPrograms ==
    {<<>>, SubSeq(default_passes, 1, 2), default_passes,
     Append(default_passes, ImportedPass)} \cup ImportedPrograms

\* The indices the messages carry.
WidgetIndices == {0, 1, 4}

\* `.map(|_| ToolPassWidgetState::new(Default::default()))`
widget_states_for(program) == [i \in DOMAIN program |-> ToolPassWidgetStateNew]

\* The widgets that may hold the focus: none, or a label of a pass.
FocusedWidgets ==
    {[label |-> "none", index |-> 0]}
    \cup {[label |-> l, index |-> i] : l \in {"NameLabel", "ColourLabel"}, i \in WidgetIndices}

\* focus_changing for a reason that lets the focus move: every widget stops
\* editing, then the label in focus, if there is one, starts.
focus_changing(states, program, focused) ==
    LET cleared == [i \in DOMAIN states |-> "None"]
        at == focused.index + 1
    IN  IF focused.label = "NameLabel" /\ at \in DOMAIN cleared
        THEN [cleared EXCEPT ![at] = "Name"]
        ELSE IF focused.label = "ColourLabel" /\ at \in DOMAIN cleared
                /\ at \in DOMAIN program
        THEN [cleared EXCEPT ![at] = "Colour"]
        ELSE cleared

beside_widget == <<job_vars, preview_vars, tool_pass_vars, bed_vars, runs_vars,
                   lock_vars, flatten_vars, raster_vars>>

\* Seance::new: the passes of the storage, or the default ones, and one
\* widget state for each.
WidgetInit ==
    /\ app_passes \in WidgetPrograms
    /\ tool_pass_widget_states = widget_states_for(app_passes)
    /\ widget_pc = "running"
    /\ LockIdle
    /\ FlattenIdle
    /\ RasterIdle
    /\ RunsIdle
    /\ tool_pass = default_passes[1]
    /\ last_call = [op |-> "none", arg |-> 0]
    /\ print_bed = BED_GCC_SPIRIT
    /\ bed_point = [x |-> 0, y |-> 0]
    /\ placed = NoPoint
    /\ bed_pc = "idle"

\* UIMessage::ToolPassesListChanged: `self.passes = passes`.
ToolPassesListChanged(program) ==
    /\ widget_pc = "running"
    /\ app_passes' = program
    /\ UNCHANGED <<tool_pass_widget_states, widget_pc, beside_widget>>

\* UIMessage::ToolPassEnableChanged
ToolPassEnableChanged(index, enabled) ==
    /\ widget_pc = "running"
    /\ app_passes' = IF index + 1 \in DOMAIN app_passes
                     THEN [app_passes EXCEPT ![index + 1] = set_enabled(@, enabled)]
                     ELSE app_passes
    /\ UNCHANGED <<tool_pass_widget_states, widget_pc, beside_widget>>

\* UIMessage::ToolPassNameClicked
ToolPassNameClicked(index) ==
    /\ widget_pc = "running"
    /\ tool_pass_widget_states' =
          IF index + 1 \in DOMAIN tool_pass_widget_states
          THEN [tool_pass_widget_states EXCEPT ![index + 1] = "Name"]
          ELSE tool_pass_widget_states
    /\ UNCHANGED <<app_passes, widget_pc, beside_widget>>

\* UIMessage::ToolPassColourClicked
ToolPassColourClicked(index) ==
    /\ widget_pc = "running"
    /\ tool_pass_widget_states' =
          IF index + 1 \in DOMAIN app_passes
             /\ index + 1 \in DOMAIN tool_pass_widget_states
          THEN [tool_pass_widget_states EXCEPT ![index + 1] = "Colour"]
          ELSE tool_pass_widget_states
    /\ UNCHANGED <<app_passes, widget_pc, beside_widget>>

\* UIMessage::ToolPassNameLostFocus
ToolPassNameLostFocus(focused) ==
    /\ widget_pc = "running"
    /\ tool_pass_widget_states' =
          focus_changing(tool_pass_widget_states, app_passes, focused)
    /\ UNCHANGED <<app_passes, widget_pc, beside_widget>>

\* UIMessage::ToolPassColourLostFocus
ToolPassColourLostFocus(focused) ==
    /\ widget_pc = "running"
    /\ tool_pass_widget_states' =
          focus_changing(tool_pass_widget_states, app_passes, focused)
    /\ UNCHANGED <<app_passes, widget_pc, beside_widget>>

\* tool_passes_widget: one tool_pass_widget for every pass, each given
\* `&mut tool_pass_widget_states[state.index]`; an index past the end of the
\* slice panics.
ToolPassesWidget ==
    /\ widget_pc = "running"
    /\ widget_pc' = IF \A at \in DOMAIN app_passes : at \in DOMAIN tool_pass_widget_states
                    THEN "running" ELSE "panicked"
    /\ widget_pc' # widget_pc
    /\ UNCHANGED <<app_passes, tool_pass_widget_states, beside_widget>>

WidgetNext ==
    \/ \E program \in WidgetPrograms : ToolPassesListChanged(program)
    \/ \E index \in WidgetIndices, enabled \in BOOLEAN : ToolPassEnableChanged(index, enabled)
    \/ \E index \in WidgetIndices : ToolPassNameClicked(index)
    \/ \E index \in WidgetIndices : ToolPassColourClicked(index)
    \/ \E focused \in FocusedWidgets : ToolPassNameLostFocus(focused)
    \/ \E focused \in FocusedWidgets : ToolPassColourLostFocus(focused)
    \/ ToolPassesWidget

WidgetIdleInit == JobIdle /\ PreviewInit /\ WidgetInit

WidgetSpec == WidgetIdleInit /\ [][WidgetNext]_vars

Init == JobInit /\ PreviewInit /\ UnitIdle
Next == JobNext
Spec == Init /\ [][Next]_vars

(***************************************************************************)
(* Reading HPGL and PCL text.                                              *)
(***************************************************************************)
StartsWith(s, prefix) == Len(s) >= Len(prefix) /\ SubSeq(s, 1, Len(prefix)) = prefix

EndsWith(s, suffix) ==
    Len(s) >= Len(suffix) /\ SubSeq(s, Len(s) - Len(suffix) + 1, Len(s)) = suffix

\* The positions at which pattern occurs in s.
Occurrences(s, pattern) ==
    {i \in 1..(Len(s) - Len(pattern) + 1) : SubSeq(s, i, i + Len(pattern) - 1) = pattern}

Contains(s, pattern) == Occurrences(s, pattern) # {}

\* The positions of the `;` of s between lo and hi, in increasing order.
RECURSIVE SemicolonsIn(_, _, _)
SemicolonsIn(s, lo, hi) ==
    IF lo > hi THEN <<>>
    ELSE IF lo = hi THEN (IF SubSeq(s, lo, lo) = ";" THEN <<lo>> ELSE <<>>)
    ELSE LET mid == (lo + hi) \div 2
         IN  SemicolonsIn(s, lo, mid) \o SemicolonsIn(s, mid + 1, hi)

\* The statements of s: the pieces of s that end at a `;`, and what is left.
Statements(s) ==
    LET ends == SemicolonsIn(s, 1, Len(s))
        last == IF ends = <<>> THEN 0 ELSE ends[Len(ends)]
    IN  [k \in 1..Len(ends) |->
            SubSeq(s, (IF k = 1 THEN 1 ELSE ends[k - 1] + 1), ends[k])]
        \o (IF last < Len(s) THEN <<SubSeq(s, last + 1, Len(s))>> ELSE <<>>)

StatementName(st) == SubSeq(st, 1, Min(2, Len(st)))

Diagnostics == {NotSixteenDiagnostic, NoneEnabledDiagnostic}

NoPassEnabled(passes) == \A i \in 1..Len(passes) : ~passes[i].enabled

\* The tool program fails the emitter's precondition.
EmitPreconditionFailed(passes) ==
    Len(passes) # RequiredToolPasses \/ NoPassEnabled(passes)

\* generate_hpgl has just returned.
Generated == pc = "generated"

(***************************************************************************)
(* C1: cut_file is all-or-nothing for fatal errors: when the SVG cannot be *)
(* parsed, or the tool program does not contain exactly 16 passes, or no   *)
(* pass is enabled, no byte is written to the print device and the caller  *)
(* is told of the failure.                                                 *)
(***************************************************************************)
C1_AllOrNothing ==
    (pc = "done" /\ (~svg_ok \/ EmitPreconditionFailed(tool_passes)))
        => (device = "" /\ result # "Ok" /\ response # "200 OK")

C2_WitnessLength ==
    /\ pc = "generated"
    /\ Len(tool_passes) = RequiredToolPasses + 1
    /\ hpgl = NotSixteenDiagnostic

(***************************************************************************)
(* The parts of an HPGL program: the header `IN;SC;PU;SPk;LT;PUx,y;` is    *)
(* its first six statements, the terminator `PUx,y;SP0;EC0;EC1;OE;` its    *)
(* last five, and the body what lies between.                              *)
(***************************************************************************)
HeaderStatements == 6
TerminatorStatements == 5

HpglProgram == Generated /\ hpgl \notin Diagnostics

Body(program) ==
    LET sts == Statements(program)
    IN  SubSeq(sts, HeaderStatements + 1, Len(sts) - TerminatorStatements)

PenSelect(i) == "SP" \o ToString(i) \o ";"

\* The passes (counted from 1) whose pen-select block is in the body.
BlocksEmitted(program) ==
    LET body == Body(program)
        selects == {body[p] : p \in 1..Len(body)}
    IN  {i \in 1..RequiredToolPasses : PenSelect(i) \in selects}

\* The bucket of a colour in the design, as cut_file collects it.
DesignBucket(c) ==
    LET buckets == get_paths_grouped_by_colour(design)
    IN  IF c \in DOMAIN buckets THEN buckets[c] ELSE <<>>

(***************************************************************************)
(* C5: in the body of the HPGL program the pipeline produces, the          *)
(* pen-select block `SPi;` is emitted for pass i if and only if pass i is  *)
(* itself enabled and the bucket of its colour is non-empty, also when     *)
(* several passes share one colour.                                        *)
(***************************************************************************)
C5_BlockIffEnabled ==
    HpglProgram =>
        LET emitted == BlocksEmitted(hpgl)
        IN  \A i \in 1..RequiredToolPasses :
            (i \in emitted)
                <=> (tool_passes[i].enabled /\ DesignBucket(tool_passes[i].colour) # <<>>)

(***************************************************************************)
(* C6: the pen-select blocks of the body appear in strictly increasing     *)
(* pass-index order, at most one block per pass index.                     *)
(***************************************************************************)
PenOf(st) == CHOOSE i \in 0..(RequiredToolPasses + 1) : st = PenSelect(i)

C6_BlocksInPassOrder ==
    HpglProgram =>
        LET body == Body(hpgl)
            selects == {p \in 1..Len(body) : StatementName(body[p]) = "SP"}
        IN  /\ \A p \in selects : \E i \in 1..RequiredToolPasses : body[p] = PenSelect(i)
            /\ \A p, q \in selects : p < q => PenOf(body[p]) < PenOf(body[q])

\* Two blocks are emitted for passes that share a colour.
C6_Witness ==
    /\ HpglProgram
    /\ LET emitted == BlocksEmitted(hpgl)
       IN  /\ \E i, j \in emitted : i < j /\ tool_passes[i].colour = tool_passes[j].colour
           /\ \E i, j \in emitted : tool_passes[i].colour # tool_passes[j].colour

(***************************************************************************)
(* C7: for every 16-pass tool program with an enabled pass the HPGL        *)
(* program starts with `IN;SC;PU;SPk;LT;`, k the index (from 1) of the     *)
(* lowest-index enabled pass, whichever colours have paths.                *)
(***************************************************************************)
EnabledPasses(passes) == {i \in 1..Len(passes) : passes[i].enabled}

Lowest(S) == CHOOSE i \in S : \A j \in S : i <= j

C7_HeaderSelectsFirstEnabled ==
    (Generated /\ ~EmitPreconditionFailed(tool_passes)) =>
        StartsWith(hpgl, "IN;SC;PU;" \o PenSelect(Lowest(EnabledPasses(tool_passes))) \o "LT;")

\* The first enabled pass is not pass 1, a later pass is enabled too, and the
\* first enabled pass has no path to cut.
C7_Witness ==
    /\ pc = "generated"
    /\ ~EmitPreconditionFailed(tool_passes)
    /\ Lowest(EnabledPasses(tool_passes)) > 1
    /\ Cardinality(EnabledPasses(tool_passes)) > 1
    /\ LET emitted == BlocksEmitted(hpgl)
       IN  Lowest(EnabledPasses(tool_passes)) \notin emitted /\ emitted # {}

(***************************************************************************)
(* What the body says of the polylines it traces.                          *)
(***************************************************************************)
PointText(point) == ToString(point.x) \o "," \o ToString(point.y) \o ";"

\* The statements that are not pen selections, in order.
Moves(body) == SelectSeq(body, LAMBDA st : StatementName(st) # "SP")

RECURSIVE Flatten(_)
Flatten(seqs) == IF seqs = <<>> THEN <<>> ELSE Head(seqs) \o Flatten(Tail(seqs))

\* The polylines of the blocks of a program, in the order of the blocks.
EmittedPolylines(program) ==
    LET emitted == BlocksEmitted(program)
    IN  Flatten([i \in 1..RequiredToolPasses |->
                    IF i \in emitted THEN resolved_paths[tool_passes[i].colour] ELSE <<>>])

\* One pen-up move to the first point, then a pen-down move to every point
\* from the one numbered first_down on.
TraceStatements(path, first_down) ==
    IF path = <<>> THEN <<>>
    ELSE <<"PU" \o PointText(path[1])>>
         \o [j \in 1..(Len(path) - first_down + 1) |->
                "PD" \o PointText(path[j + first_down - 1])]

TracedAs(first_down) ==
    LET polylines == EmittedPolylines(hpgl)
    IN  Moves(Body(hpgl)) =
            Flatten([k \in 1..Len(polylines) |-> TraceStatements(polylines[k], first_down)])

(***************************************************************************)
(* C8, as claimed: a polyline of n points is traced as one `PU` to its     *)
(* first point followed by one `PD` for every subsequent point (n-1 `PD`   *)
(* statements); an empty polyline emits nothing.                           *)
(***************************************************************************)
C8_Claimed == HpglProgram => TracedAs(2)

(***************************************************************************)
(* C8, amended: a polyline of n points is traced as one `PU` to its first  *)
(* point followed by one `PD` for every point, the first included, in      *)
(* polyline order (n `PD` statements); an empty polyline emits nothing.    *)
(***************************************************************************)
C8_TracePath == HpglProgram => TracedAs(1)

\* A polyline of several points and an empty polyline are both traced.
C8_Witness ==
    /\ HpglProgram
    /\ LET polylines == EmittedPolylines(hpgl)
       IN  /\ \E k \in 1..Len(polylines) : Len(polylines[k]) >= 3
           /\ \E k \in 1..Len(polylines) : polylines[k] = <<>>

(***************************************************************************)
(* C9, as claimed: with 16 passes of which exactly one, pass k, is enabled *)
(* and no path in the bucket of its colour, the output contains            *)
(* `IN;SC;PU;SPk;LT;PU0,0;PU0,0;SP0;EC0;EC1;OE;` and no `PD`.              *)
(***************************************************************************)
OneEnabledEmptyBucket ==
    /\ Generated
    /\ Len(tool_passes) = RequiredToolPasses
    /\ Cardinality(EnabledPasses(tool_passes)) = 1
    /\ DesignBucket(tool_passes[Lowest(EnabledPasses(tool_passes))].colour) = <<>>

C10_EnvelopeFraming ==
    pc = "wrapped" =>
        LET uel == ESC \o "%-12345X"
            escapes == Occurrences(pcl, ESC)
            second == {i \in escapes : Cardinality({j \in escapes : j < i}) = 1}
            second_to_last == {i \in escapes : Cardinality({j \in escapes : j > i}) = 1}
            enter_hpgl == Occurrences(pcl, ESC \o "%1B")
            enter_pcl == Occurrences(pcl, ESC \o "%1A")
        IN  /\ StartsWith(pcl, uel)
            /\ EndsWith(pcl, uel)
            /\ second = {Len(uel) + 1}
            /\ second_to_last = {Len(pcl) - Len(uel) - 1}
            /\ \A i \in second \cup second_to_last : SubSeq(pcl, i, i + 1) = ESC \o "E"
            /\ \E b \in enter_hpgl :
                   \E a \in enter_pcl :
                       /\ a > b
                       /\ \A n \in enter_pcl : n > b => a <= n
                       /\ SubSeq(pcl, b + 4, a - 1) = hpgl

\* An HPGL program with a block is wrapped, under a name that itself holds
\* the bytes of `ESC %1B`.
C10_Witness ==
    /\ pc = "wrapped"
    /\ hpgl \notin Diagnostics
    /\ Contains(hpgl, "PD")
    /\ Contains(file_name, ESC \o "%1B")
    /\ Contains(pcl, hpgl)

(***************************************************************************)
(* The preview worker.                                                     *)
(***************************************************************************)

\* The request in the mailbox is the one submitted last.
TakeIsLatest == render_request # NoRequest => render_request.id = next_request - 1

\* A request replaced in the mailbox never reaches the worker.
OverwrittenNeverTaken == overwritten \cap (taken \cup rendered) = {}

\* Every request render_inner returned for was rasterised.
TakenIsRendered == processed \subseteq rendered

\* C3: request coalescing is last-writer-wins: the worker takes the most
\* recent request submitted before its take and renders it, and a request
\* overwritten while it was pending is never rendered.
C3_LastWriterWins ==
    /\ TakeIsLatest
    /\ OverwrittenNeverTaken
    /\ TakenIsRendered

\* C4: the rasteriser never fails: every request the worker took and
\* returned for, whose receiver was still alive, had exactly one image sent
\* on its channel.
C4_AlwaysOneImage ==
    \A r \in processed : r \in open_at_return => tx[r] = "sent"

(***************************************************************************)
(* Reading the pen table back from the envelope.  A section starts with    *)
(* `ESC !v <count> <letter>` and runs to the next ESC.                     *)
(***************************************************************************)
Digits == {"0", "1", "2", "3", "4", "5", "6", "7", "8", "9"}

AllIn(text, chars) == \A k \in 1..Len(text) : SubSeq(text, k, k) \in chars

\* What follows the `ESC !v` at position i of stream, up to the next ESC.
SectionText(stream, i) ==
    LET later == {j \in Occurrences(stream, ESC) : j > i}
        stop == IF later = {} THEN Len(stream) + 1
                ELSE CHOOSE j \in later : \A k \in later : j <= k
    IN  SubSeq(stream, i + 3, stop - 1)

\* The place of the section's letter: the first character that is no digit.
LetterAt(text) ==
    LET others == {k \in 1..Len(text) : SubSeq(text, k, k) \notin Digits}
    IN  IF others = {} THEN 0 ELSE CHOOSE k \in others : \A j \in others : k <= j

\* The bodies of the sections of stream that carry the letter.
PenTableSections(stream, letter) ==
    {LET text == SectionText(stream, i)
     IN  SubSeq(text, LetterAt(text) + 1, Len(text)) :
        i \in {j \in Occurrences(stream, ESC \o "!v") :
                 LET text == SectionText(stream, j)
                 IN  LetterAt(text) > 0
                     /\ SubSeq(text, LetterAt(text), LetterAt(text)) = letter}}

\* The job's envelope has been built from a tool program the emitter accepts.
Enveloped == pc = "wrapped" /\ ~EmitPreconditionFailed(tool_passes)

(***************************************************************************)
(* C11: for every input the pipeline accepts, tool passes read from a file *)
(* included, the pen table has exactly 16 `1` in its R section, exactly 64 *)
(* digits in each of its I, V and P sections, and exactly 16 bytes in its  *)
(* D section, each 0x02 or 0x00, as many 0x02 as there are enabled passes. *)
(***************************************************************************)
C11_PenTableWidths ==
    Enveloped =>
        /\ \E body \in PenTableSections(pcl, "R") :
               Len(body) = RequiredToolPasses /\ AllIn(body, {"1"})
        /\ \A letter \in {"I", "V", "P"} :
               \E body \in PenTableSections(pcl, letter) :
                   Len(body) = 4 * RequiredToolPasses /\ AllIn(body, Digits)
        /\ \E body \in PenTableSections(pcl, "D") :
               /\ Len(body) = RequiredToolPasses
               /\ AllIn(body, {SOX, NUL})
               /\ Cardinality({k \in 1..Len(body) : SubSeq(body, k, k) = SOX})
                      = Cardinality(EnabledPasses(tool_passes))

(***************************************************************************)
(* Reading the fields of the pen table.                                    *)
(***************************************************************************)
DigitValue(ch) == CHOOSE d \in 0..9 : ToString(d) = ch

\* The number a string of digits writes.
RECURSIVE NumberOf(_)
NumberOf(text) ==
    IF text = "" THEN 0
    ELSE 10 * NumberOf(SubSeq(text, 1, Len(text) - 1))
         + DigitValue(SubSeq(text, Len(text), Len(text)))

\* The k-th field of 4 characters of a section's body.
Field(body, k) == SubSeq(body, 4 * k - 3, 4 * k)

(***************************************************************************)
(* C12: pen-table round trip: splitting the V and P sections into fields   *)
(* of 4 characters and reading the D section byte by byte recovers, for    *)
(* each of the 16 passes in order, the pass's speed, power and enabled     *)
(* bit.                                                                    *)
(***************************************************************************)
C12_PenTableRoundTrip ==
    Enveloped =>
        \E speeds \in PenTableSections(pcl, "V") :
        \E powers \in PenTableSections(pcl, "P") :
        \E enables \in PenTableSections(pcl, "D") :
            \A k \in 1..RequiredToolPasses :
                /\ AllIn(Field(speeds, k), Digits)
                /\ AllIn(Field(powers, k), Digits)
                /\ NumberOf(Field(speeds, k)) = tool_passes[k].speed
                /\ NumberOf(Field(powers, k)) = tool_passes[k].power
                /\ SubSeq(enables, k, k) = (IF tool_passes[k].enabled THEN SOX ELSE NUL)

(***************************************************************************)
(* C13: after ToolPass::new and any sequence of set_power, set_speed,      *)
(* set_enabled, set_name and set_colour calls, power and speed are within  *)
(* 0..1000; an argument of set_power or set_speed that is at most 1000 is  *)
(* stored unchanged and a larger one is stored as 1000.                    *)
(***************************************************************************)
C13_PowerSpeedClamped ==
    /\ tool_pass.power \in 0..1000
    /\ tool_pass.speed \in 0..1000
    /\ last_call.op = "set_power"
          => tool_pass.power = (IF last_call.arg <= 1000 THEN last_call.arg ELSE 1000)
    /\ last_call.op = "set_speed"
          => tool_pass.speed = (IF last_call.arg <= 1000 THEN last_call.arg ELSE 1000)

\* set_power was called with more than 1000 on a pass whose speed had been
\* set to 10.
C13_Witness ==
    /\ last_call.op = "set_power"
    /\ last_call.arg > 1000
    /\ tool_pass.power = 1000
    /\ tool_pass.speed = 10

AxisValue(coordinate, mirror, end) == IF mirror THEN end - coordinate ELSE coordinate

InBed ==
    /\ print_bed.x_start <= bed_point.x /\ bed_point.x <= print_bed.x_end
    /\ print_bed.y_start <= bed_point.y /\ bed_point.y <= print_bed.y_end

ValueX == AxisValue(bed_point.x, print_bed.mirror_x, print_bed.x_end)
ValueY == AxisValue(bed_point.y, print_bed.mirror_y, print_bed.y_end)

\* round(v / 0.025) is within the range of an i16.
RoundedFits(v) == RoundToPlotterUnits(v) \in I16Min..I16Max

\* v / 0.025, before it is rounded, is within the range of an i16.
QuotientFits(v) == I16Min * MM_PER_PLOTTER_UNIT <= v /\ v <= I16Max * MM_PER_PLOTTER_UNIT

PlacedAs(Fits(_)) ==
    bed_pc = "returned" =>
        /\ IF InBed /\ Fits(ValueX) /\ Fits(ValueY)
           THEN placed = [some |-> TRUE, x |-> RoundToPlotterUnits(ValueX),
                          y |-> RoundToPlotterUnits(ValueY)]
           ELSE placed = NoPoint
        /\ placed.some => placed.x \in I16Min..I16Max /\ placed.y \in I16Min..I16Max
        /\ (print_bed.mirror_x /\ print_bed.mirror_y
              /\ bed_point.x = print_bed.x_end /\ bed_point.y = print_bed.y_end)
             => placed = [some |-> TRUE, x |-> 0, y |-> 0]

RECURSIVE SplitAtOutOfBed(_)
SplitAtOutOfBed(points) ==
    IF points = <<>> THEN << <<>> >>
    ELSE LET rest == SplitAtOutOfBed(Tail(points))
             at == place_point(BED_GCC_SPIRIT, Head(points))
         IN  IF at.some
             THEN << <<[x |-> at.x, y |-> at.y]>> \o Head(rest) >> \o Tail(rest)
             ELSE << <<>> >> \o rest

RECURSIVE SplitAll(_)
SplitAll(polylines) ==
    IF polylines = <<>> THEN <<>>
    ELSE SplitAtOutOfBed(Head(polylines)) \o SplitAll(Tail(polylines))

NonEmptyPolylines(polylines) == SelectSeq(polylines, LAMBDA line : line # <<>>)

OutOfBed(p) == ~place_point(BED_GCC_SPIRIT, p).some

(***************************************************************************)
(* C16: the conversion to plotter units drops every point that fails the   *)
(* bed bounds check instead of emitting it at a clamped coordinate, and    *)
(* cuts a polyline in two where it loses a point: the converted polylines  *)
(* of a colour are the runs of in-bed points of its polylines in mm.       *)
(***************************************************************************)
C16_OutOfBedDropped ==
    pc = "converted" =>
        \A c \in DOMAIN paths_in_mm :
            NonEmptyPolylines(resolved_paths[c])
                = NonEmptyPolylines(SplitAll(paths_in_mm[c]))

\* Restricted to jobs without an out-of-bed point the conversion is as claimed.
C16_InBedConverted ==
    (pc = "converted"
       /\ \A c \in DOMAIN paths_in_mm : \A i \in DOMAIN paths_in_mm[c] :
            \A k \in DOMAIN paths_in_mm[c][i] : ~OutOfBed(paths_in_mm[c][i][k]))
    => \A c \in DOMAIN paths_in_mm :
            NonEmptyPolylines(resolved_paths[c])
                = NonEmptyPolylines(SplitAll(paths_in_mm[c]))

(***************************************************************************)
(* The filter by tool pass.                                                *)
(***************************************************************************)
EnabledColours(passes) ==
    {passes[i].colour : i \in {k \in 1..Len(passes) : passes[k].enabled}}

\* The buckets that filter_paths_to_tool_passes was handed.
Unfiltered == resolve_paths(grouped, offset)

(***************************************************************************)
(* C17: filter_paths_to_tool_passes keeps a colour bucket if and only if   *)
(* an enabled tool pass has exactly that colour and leaves the polylines   *)
(* of every kept bucket as they were; every pen-select block of the HPGL   *)
(* program belongs to a pass whose colour is the colour of an enabled pass.*)
(***************************************************************************)
C17_FilterKeepsEnabledColours ==
    /\ pc = "filtered" =>
          /\ DOMAIN paths_in_mm = DOMAIN Unfiltered \cap EnabledColours(tool_passes)
          /\ \A c \in DOMAIN paths_in_mm : paths_in_mm[c] = Unfiltered[c]
    /\ HpglProgram =>
          \A i \in BlocksEmitted(hpgl) :
              tool_passes[i].colour \in EnabledColours(tool_passes)

\* The filter has dropped the bucket of a colour whose only pass is disabled
\* and kept the bucket of an enabled pass.
C17_Witness ==
    /\ pc = "filtered"
    /\ \E c \in DOMAIN Unfiltered :
          /\ c \notin DOMAIN paths_in_mm
          /\ \E i \in 1..Len(tool_passes) : tool_passes[i].colour = c
    /\ \E c \in DOMAIN paths_in_mm : paths_in_mm[c] # <<>>

(***************************************************************************)
(* C18: runs of the preparation pipeline on the same design, tool program, *)
(* offset and file name produce the same bytes, whatever order their maps  *)
(* hand out the colours in; and the bytes are those of cut_file's pipeline.*)
(***************************************************************************)
C18_Deterministic ==
    \A a, b \in DOMAIN prepared :
        /\ prepared[a].pcl = prepared[b].pcl
        /\ prepared[a].pcl
             = wrap_hpgl_in_pcl(
                   generate_hpgl(
                       convert_points_to_plotter_units(
                           filter_paths_to_tool_passes(
                               resolve_paths(get_paths_grouped_by_colour(run_input.design),
                                             run_input.offset),
                               run_input.tool_passes)),
                       run_input.tool_passes, BED_GCC_SPIRIT),
                   run_input.file_name, run_input.tool_passes)

\* Two runs on a design of two colours, both cut, whose maps handed out the
\* colours in opposite orders.
C18_Witness ==
    /\ Len(prepared) = ComparedRuns
    /\ prepared[1].grouped_state = <<Black, Red, Green>>
    /\ prepared[1].in_mm_state = <<Black, Red, Green>>
    /\ prepared[2].grouped_state = <<Green, Red, Black>>
    /\ prepared[2].in_mm_state = <<Black, Red, Green>>
    /\ {run_input.design[i].colour : i \in DOMAIN run_input.design} = {Black, Red}
    /\ Contains(prepared[2].pcl, "SP1;")
    /\ Contains(prepared[2].pcl, "SP2;")

(***************************************************************************)
(* C19: whatever MoveDesign, DesignOffsetChanged and ResetDesignPosition   *)
(* messages have been handled, the design offset the preview stores has    *)
(* x >= 0 and y >= 0, and so has the offset of every render request: the   *)
(* one in the mailbox and the one the worker has taken.                    *)
(***************************************************************************)
NotNegative(offset_mm) == offset_mm.x >= 0 /\ offset_mm.y >= 0

C19_OffsetNeverNegative ==
    /\ NotNegative(design_offset_mm)
    /\ NotNegative(render_request.design_offset_mm)
    /\ NotNegative(request.design_offset_mm)

\* A message asked for an offset left of the bed; the preview stores, and has
\* submitted, the offset clamped to the edge.
C19_Witness ==
    /\ design_offset_mm = [x |-> 0, y |-> 20]
    /\ render_request # NoRequest
    /\ render_request.design_offset_mm = [x |-> 0, y |-> 20]

(***************************************************************************)
(* The life of a preview request.                                          *)
(***************************************************************************)
\* The worker takes from the mailbox in this step.
Taking == worker_pc = "take" /\ worker_pc' # "take"

\* render_inner returns in this step.
Returning == worker_pc = "render" /\ worker_pc' = "sleep"

(***************************************************************************)
(* C20: a preview request is taken from the mailbox at most once, is       *)
(* rendered at most once and its reply channel receives at most one image; *)
(* a request that was taken is never in the mailbox again, and the mailbox *)
(* is empty right after each take.                                         *)
(***************************************************************************)
C20_RequestLifeCycle ==
    [][/\ Taking =>
            /\ render_request' = NoRequest
            /\ render_request.id \notin taken
            /\ request' = render_request
       /\ Returning =>
            /\ request.id \in taken
            /\ request.id \notin processed
            /\ request.id \notin rendered
            /\ tx[request.id] # "sent"
       /\ \A r \in Requests :
            /\ tx[r] = "sent" => tx'[r] = "sent"
            /\ tx'[r] = "sent" /\ tx[r] # "sent" => Returning /\ r = request.id
            /\ r \in taken => render_request'.id # r
            /\ r \in rendered => r \in rendered' /\ r \in taken]_vars

\* Two requests have been taken, rendered and answered with an image each,
\* and a third waits in the mailbox.
C20_Witness ==
    /\ Cardinality(taken) >= 2
    /\ Cardinality({r \in Requests : tx[r] = "sent"}) >= 2
    /\ Cardinality(rendered) >= 2
    /\ render_request # NoRequest
    /\ worker_pc = "sleep"

(***************************************************************************)
(* C21: the render thread holds the mailbox mutex only while it takes the  *)
(* request, never while it renders, sends the image or sleeps; so a        *)
(* producer at the lock of its submit finds the mutex free whenever the    *)
(* render thread is rendering, sending or sleeping.                        *)
(***************************************************************************)
WorkerBusy == worker_at \in {"render", "send", "sleep"}

Cancelled == rendered \ open_at_return

\* The failed send is ignored and the image discarded: the channel of a
\* cancelled request carries nothing and no texture comes from it.
FailedSendIgnored ==
    \A r \in Cancelled :
        /\ tx[r] = "dropped"
        /\ rx[r] # "received"
        /\ image_texture # r

\* The requests the render thread returned for after a cancelled one.
ServedAfterCancel == {r \in processed : \E c \in Cancelled : c < r}

(***************************************************************************)
(* C22: when the receiver of a request is dropped before the render thread *)
(* sends, the failed send is ignored and the image discarded, and the      *)
(* render thread serves every request it takes afterwards: each such       *)
(* request whose receiver is alive gets its image.                         *)
(***************************************************************************)
C22_CancellationHarmless ==
    /\ FailedSendIgnored
    /\ \A r \in ServedAfterCancel : r \in open_at_return => tx[r] = "sent"

(***************************************************************************)
(* Well-formed HPGL.                                                       *)
(***************************************************************************)
StatementNames == {"IN", "SC", "PU", "PD", "SP", "LT", "EC", "OE"}

\* text is a decimal integer: digits, after at most one sign.
IsInteger(text) ==
    LET unsigned == IF Len(text) > 0 /\ SubSeq(text, 1, 1) = "-"
                    THEN SubSeq(text, 2, Len(text)) ELSE text
    IN  Len(unsigned) > 0 /\ AllIn(unsigned, Digits)

\* text is `x,y` with x and y decimal integers.
IsCoordinatePair(text) ==
    LET commas == Occurrences(text, ",")
    IN  /\ Cardinality(commas) = 1
        /\ LET at == CHOOSE k \in commas : TRUE
           IN  /\ IsInteger(SubSeq(text, 1, at - 1))
               /\ IsInteger(SubSeq(text, at + 1, Len(text)))

\* What stands between the name of a statement and its `;`.
Arguments(st) == SubSeq(st, 3, Len(st) - 1)

WellFormedStatement(st) ==
    /\ EndsWith(st, ";")
    /\ StatementName(st) \in StatementNames
    /\ StatementName(st) = "PD" => IsCoordinatePair(Arguments(st))
    /\ (StatementName(st) = "PU" /\ Arguments(st) # "") => IsCoordinatePair(Arguments(st))

WellFormed(program) ==
    LET statements == Statements(program)
    IN  \A k \in 1..Len(statements) : WellFormedStatement(statements[k])

(***************************************************************************)
(* C23: every string generate_hpgl returns, for every input, is a sequence *)
(* of statements that each end in `;`, are named IN, SC, PU, PD, SP, LT,   *)
(* EC or OE, and carry decimal integers as their coordinate pairs.         *)
(***************************************************************************)
C23_HpglWellFormed == Generated => WellFormed(hpgl)

\* Restricted to the tool programs the emitter accepts, the string is well formed.
C23_ProgramWellFormed == HpglProgram => WellFormed(hpgl)

(***************************************************************************)
(* What resolve_paths is to push for one SVG path.                         *)
(***************************************************************************)
\* The polyline of subpath k: its samples, moved by the offset, and a copy
\* of its first sample at the end when it is closed.
PolylineOf(subpath, off) ==
    LET points == IF subpath.closed
                  THEN Append(subpath.points, Head(subpath.points))
                  ELSE subpath.points
    IN  [i \in 1..Len(points) |-> offset_point(points[i], off)]

FlattenedAsClaimed ==
    /\ Len(flattened) = Len(svg_path)
    /\ \A k \in DOMAIN svg_path :
          flattened[k] = PolylineOf(svg_path[k], flatten_offset)

(***************************************************************************)
(* C25: the polyline of every closed subpath ends with a copy of its first *)
(* sample point, nothing is appended for a path that is not closed, and an *)
(* SVG path of several subpaths yields one polyline per subpath.           *)
(***************************************************************************)
C25_PolylinePerSubpath == flatten_pc = "pushed" => FlattenedAsClaimed

\* Restricted to paths of one subpath, the polyline is as claimed.
C25_SingleSubpath ==
    (flatten_pc = "pushed" /\ Len(svg_path) = 1) => FlattenedAsClaimed

(***************************************************************************)
(* Document order.  The design is the sequence of its path nodes in the    *)
(* depth-first order of the node tree.                                     *)
(***************************************************************************)
\* The paths of colour c, in document order.
InDocumentOrder(c) == SelectSeq(design, LAMBDA path : path.colour = c)

\* The same paths flattened and offset, and converted to plotter units.
FlattenedInOrder(c) ==
    [i \in 1..Len(InDocumentOrder(c)) |-> resolve_path(InDocumentOrder(c)[i], offset)]

ConvertedInOrder(c) ==
    [i \in 1..Len(InDocumentOrder(c)) |->
        points_in_mm_to_printer_units(FlattenedInOrder(c)[i])]

\* The statements that trace the polylines first to last.
RECURSIVE TracedInOrder(_)
TracedInOrder(polylines) ==
    IF polylines = <<>> THEN ""
    ELSE trace_path(Head(polylines)) \o TracedInOrder(Tail(polylines))

C26_OverlapColourFixed ==
    raster_pc = "sent" =>
        \A order \in RasterStates : canvas = rendered_image(raster_input, order)

\* The part of C26 that holds: a pixel of a mark shows a path, never the grid.
GridBeneathPaths ==
    raster_pc = "sent" =>
        \A point \in plotted_points(raster_input) :
            \A index \in mark_indices(pixel_of(point.x, raster_input.size),
                                      pixel_of(point.y, raster_input.size),
                                      raster_input.size) :
                (index + 1) \in DOMAIN canvas => canvas[index + 1] \in PathColours

\* The colours of the paths whose points are drawn at (x, y) of the texture.
\* A pixel is of the mark of a point when it is in the row or the column of
\* the point, at most half the thickness away.
in_mark(x, y, point, image_size) ==
    LET pixel_x == pixel_of(point.x, image_size)
        pixel_y == pixel_of(point.y, image_size)
    IN  \/ x = pixel_x /\ y \in mark_range_signed(pixel_y)
        \/ y = pixel_y /\ x \in mark_range_signed(pixel_x)

points_of_colour(input, colour) ==
    UNION {{input.paths[colour][i][k] : k \in DOMAIN input.paths[colour][i]} :
             i \in DOMAIN input.paths[colour]}

marks_in_row_and_column ==
    \A k \in DOMAIN canvas :
        canvas[k] \in DOMAIN raster_input.paths =>
            \E point \in points_of_colour(raster_input, canvas[k]) :
                in_mark((k - 1) % texture_width(raster_input.size),
                        (k - 1) \div texture_width(raster_input.size),
                        point, raster_input.size)

(***************************************************************************)
(* C30: plotting the plus marks, `pixel_x - 2` and `pixel_y - 2` never go  *)
(* below 0 or wrap, also for a pixel coordinate of 0 or 1 or at the right  *)
(* or bottom edge, and every pixel written is in the row or the column of  *)
(* the mark of its point.                                                  *)
(***************************************************************************)
C30_MarksNeverUnderflow ==
    raster_pc \in {"sent", "panicked"} =>
        /\ ~underflowed
        /\ raster_pc = "sent"
        /\ marks_in_row_and_column

\* The part of C30 that holds: a mark that is whole inside the texture is
\* drawn in the row and the column of its point.
inside(point, image_size) ==
    /\ ~underflows(pixel_of(point.x, image_size))
    /\ ~underflows(pixel_of(point.y, image_size))
    /\ pixel_of(point.x, image_size) + half_thickness <= texture_width(image_size)

MarksInsideAreInPlace ==
    (raster_pc \in {"sent", "panicked"}
        /\ \A point \in plotted_points(raster_input) : inside(point, raster_input.size))
    => ~underflowed /\ raster_pc = "sent" /\ marks_in_row_and_column

\* The request the preview submitted last, or 0.
latest_request == next_request - 1

(***************************************************************************)
(* C27: the DesignPreview keeps only the receiver of the request it        *)
(* submitted last, so a texture it installs is always the image of that    *)
(* request, never of a superseded one: at every step the receiver kept is  *)
(* none or that of the latest request, every other receiver is gone, and a *)
(* texture that changes becomes the image of the latest request.           *)
(***************************************************************************)
C27_TextureFromLatestRequest ==
    [][/\ waiting_render_callback' \in {0, latest_request'}
       /\ \A r \in Requests : rx'[r] = "alive" => r = waiting_render_callback'
       /\ image_texture' # image_texture =>
            /\ image_texture' = latest_request'
            /\ image_texture' = waiting_render_callback
            /\ image_texture' \in rendered]_vars

\* A texture is installed after an older request was rendered and its image
\* discarded.
C27_Witness ==
    /\ image_texture = latest_request
    /\ \E r \in rendered : r < image_texture /\ rx[r] = "dropped"

\* The preview of a loaded design waits for an image.
Waiting == waiting_render_callback # 0 /\ design_file # NoDesign

(***************************************************************************)
(* C28: after the preview submits a render request and nothing changes any *)
(* more, under a fair worker the preview receives an image and stops       *)
(* waiting (waiting_render_callback becomes None): image and the worker    *)
(* never resubmit and drop requests for ever.                              *)
(***************************************************************************)
C28_EventuallyStopsWaiting == Waiting ~> (waiting_render_callback = 0)

\* The round that repeats: the request image submits again for a dropped
\* sender is one that the worker, as it stands, renders.
ResubmittedIsRendered ==
    [][(Image /\ tx[waiting_render_callback] = "dropped")
       => ~NothingHasChanged(render_request'.size, design_file)]_vars

(***************************************************************************)
(* C29: after any sequence of UI messages, ToolPassesListChanged with an   *)
(* imported program of any length among them, tool_pass_widget_states has  *)
(* at least as many entries as passes, so that the access                  *)
(* tool_pass_widget_states[state.index] of tool_passes_widget is in bounds.*)
(***************************************************************************)
C29_WidgetStatesCoverPasses ==
    widget_pc # "idle" =>
        /\ Len(tool_pass_widget_states) >= Len(app_passes)
        /\ widget_pc # "panicked"

\* What the code does keep: no message changes the number of widget states.
WidgetStatesNeverResized ==
    [][Len(tool_pass_widget_states') = Len(tool_pass_widget_states)]_vars

====
